---------------------------- MODULE Spec2Model ----------------------------
(***************************************************************************)
(* Model of the operation lifecycle pipeline of TezosNodeWriter.ts:        *)
(* counter query, reveal bundling, forging, signing, preapply, validation  *)
(* of the applied results and injection.                                   *)
(*                                                                         *)
(* Text values.  A JavaScript string that the code builds from a number    *)
(* (counter.toString(), fee.toString(), ...) is a sequence of decimal      *)
(* digits 0..9.  A hex string is a sequence of hex digits 0..15, a Buffer  *)
(* is a sequence of bytes 0..255.  Addresses, keys and kinds are TLA+      *)
(* strings.                                                                *)
(***************************************************************************)
EXTENDS Integers, Sequences, FiniteSets

VARIABLES
    node,    \* the remote node: account counters, reveal flags, head, injections
    node0,   \* the node's accounts as they were when the model started
    call,    \* per call: position and locals of one invocation of a public function
    active   \* the calls that run in this specification

vars == <<node, node0, call, active>>

-----------------------------------------------------------------------------
(* Bounds of the model *)

MaxOps == 2          \* longest operation list handed to a function under test
MaxBase == 9         \* largest accountOperationIndex handed to appendRevealOperation
MaxHead == 2         \* the chain head advances at most up to this level
MaxHexLen == 4       \* longest forged hex string handed to signOperationGroup on its own

-----------------------------------------------------------------------------
(* Number <-> decimal string *)

RECURSIVE ToString(_)
ToString(n) == IF n < 10 THEN <<n>> ELSE ToString(n \div 10) \o <<n % 10>>

RECURSIVE ParseInt(_)
ParseInt(s) == IF Len(s) = 0 THEN 0
               ELSE 10 * ParseInt(SubSeq(s, 1, Len(s) - 1)) + s[Len(s)]

-----------------------------------------------------------------------------
(* Accounts and key stores *)

Accounts == {"tz1A", "tz1B"}
Undefined == "undefined"

KeyStores ==
    { [publicKey |-> "edpkA", privateKey |-> "edskA", publicKeyHash |-> "tz1A",
       storeType |-> "Hardware"],
      [publicKey |-> "edpkB", privateKey |-> "edskB", publicKeyHash |-> "tz1B",
       storeType |-> "Fundraiser"] }

-----------------------------------------------------------------------------
(* TezosConstants (types/tezos/TezosConstants) *)

OperationGroupWatermark == <<0, 3>>
DefaultTransactionStorageLimit == 300
DefaultTransactionGasLimit == 10600
DefaultDelegationFee == 1258
DefaultDelegationStorageLimit == 0
DefaultDelegationGasLimit == 10000
DefaultKeyRevealFee == 1270
DefaultAccountOriginationStorageLimit == 277
DefaultAccountOriginationGasLimit == 10160
DefaultAccountOriginationFee == 1266

-----------------------------------------------------------------------------
(* Operation records (TezosP2PMessageTypes) *)

StackableKinds == {"reveal", "transaction", "origination", "delegation"}

IsStackable(op) == op.kind \in StackableKinds

\* operation.counter = c.toString()   (line 252)
SetCounter(op, c) == [op EXCEPT !.counter = ToString(c)]

-----------------------------------------------------------------------------
(* appendRevealOperation, lines 235-259.  isKeyRevealed is the answer of   *)
(* TezosNodeReader.isManagerKeyRevealedForAccount.  The result has two     *)
(* parts: ret, the returned list, and args, the caller's array as the call *)
(* leaves it (operations.forEach assigns the counters in place).           *)

\* Variant: the reveal takes the account's current counter, not the next one.
RevealOpStaleCounter(keyStore, accountHash, counter) ==
    [kind |-> "reveal", source |-> accountHash, fee |-> ToString(0),
     counter |-> ToString(counter - 1), gas_limit |-> ToString(10600),
     storage_limit |-> ToString(0), public_key |-> keyStore.publicKey]

\* Variant: the bundled reveal is built as sendKeyRevealOperation builds its own,
\* with the default reveal fee, gas limit 10000 and the key store's account.
RevealOpAsKeyReveal(keyStore, accountHash, counter) ==
    [kind |-> "reveal", source |-> keyStore.publicKeyHash,
     fee |-> ToString(DefaultKeyRevealFee), counter |-> ToString(counter),
     gas_limit |-> ToString(10000), storage_limit |-> ToString(0),
     public_key |-> keyStore.publicKey]

RevealOp(keyStore, accountHash, counter) ==
    [kind |-> "reveal", source |-> accountHash, fee |-> ToString(0),
     counter |-> ToString(counter), gas_limit |-> ToString(10600),
     storage_limit |-> ToString(0), public_key |-> keyStore.publicKey]

\* Variant: the first renumbered operation reuses the reveal's counter.
RenumberFromRevealCounter(accountOperationIndex, operations) ==
    [index \in 1..Len(operations) |->
        SetCounter(operations[index], accountOperationIndex + 1 + (index - 1))]

Renumber(accountOperationIndex, operations) ==
    [index \in 1..Len(operations) |->
        SetCounter(operations[index], accountOperationIndex + 2 + (index - 1))]

\* Variant: the counters are rewritten before the revealed check, so a revealed
\* account's operations are renumbered too.
appendRevealRenumbersAlways(isKeyRevealed, keyStore, accountHash, accountOperationIndex, operations) ==
    LET renumbered == Renumber(accountOperationIndex, operations) IN
    IF ~isKeyRevealed
    THEN [ret |-> <<RevealOp(keyStore, accountHash, accountOperationIndex + 1)>> \o renumbered,
          args |-> renumbered]
    ELSE [ret |-> renumbered, args |-> renumbered]

appendRevealOperation(isKeyRevealed, keyStore, accountHash, accountOperationIndex, operations) ==
    LET counter == accountOperationIndex + 1 IN
    IF ~isKeyRevealed
    THEN LET revealOp == RevealOp(keyStore, accountHash, counter)
             renumbered == Renumber(accountOperationIndex, operations)
         IN [ret |-> <<revealOp>> \o renumbered, args |-> renumbered]
    ELSE [ret |-> operations, args |-> operations]

-----------------------------------------------------------------------------
(* Hex strings and Buffers *)

HexDigits == 0..15

\* Buffer.from(hex, 'hex'): two hex digits per byte, a trailing odd digit is dropped.
BufferFromHex(hex) ==
    [i \in 1..(Len(hex) \div 2) |-> 16 * hex[2 * i - 1] + hex[2 * i]]

\* buffer.toString('hex')
BufferToHex(bytes) ==
    [i \in 1..(2 * Len(bytes)) |->
        IF i % 2 = 1 THEN bytes[(i + 1) \div 2] \div 16 ELSE bytes[i \div 2] % 16]

-----------------------------------------------------------------------------
(* The binary codec (TezosMessageCodec, TezosMessageUtils): an external    *)
(* collaborator.  Modelled as a one-byte tag per kind, one byte per name   *)
(* (address, key, branch, secret), a 7-bit little-endian varint per number *)
(* and one byte per flag; parseOperationGroup reads the same format back.  *)

Names == <<"tz1A", "tz1B", "tz1C", "edpkA", "edpkB", "secretA", "secretB",
           "BLa", "BLb", "BLc", "BLd", "BLe", "Unit">>

NameCode(s) == 160 + (CHOOSE i \in 1..Len(Names) : Names[i] = s)
CodeName(b) == Names[b - 160]

writeByte(b) == <<b \div 16, b % 16>>

RECURSIVE writeInt(_)
writeInt(n) == IF n < 128 THEN writeByte(n)
               ELSE writeByte(128 + (n % 128)) \o writeInt(n \div 128)

writeName(s) == writeByte(NameCode(s))
writeBoolean(b) == writeByte(IF b THEN 255 ELSE 0)
writeOptionalName(s) == IF s = Undefined THEN writeBoolean(FALSE)
                        ELSE writeBoolean(TRUE) \o writeName(s)

writeBranch(branch) == writeName(branch)

KindTag(kind) == CASE kind = "activate_account" -> 4
                   [] kind = "ballot" -> 6
                   [] kind = "reveal" -> 7
                   [] kind = "transaction" -> 8
                   [] kind = "origination" -> 9
                   [] kind = "delegation" -> 10

TagKind(tag) == CHOOSE kind \in {"activate_account", "ballot", "reveal", "transaction",
                                 "origination", "delegation"} : KindTag(kind) = tag

\* The fields of each kind in wire order, each with the way it is written.
CommonFields == <<[name |-> "source", type |-> "name"], [name |-> "fee", type |-> "int"],
                  [name |-> "counter", type |-> "int"], [name |-> "gas_limit", type |-> "int"],
                  [name |-> "storage_limit", type |-> "int"]>>

WireFields(kind) ==
    CASE kind = "activate_account" ->
           <<[name |-> "pkh", type |-> "name"], [name |-> "secret", type |-> "name"]>>
      [] kind = "ballot" ->
           <<[name |-> "source", type |-> "name"], [name |-> "period", type |-> "int"],
             [name |-> "proposal", type |-> "name"]>>
      [] kind = "reveal" -> CommonFields \o <<[name |-> "public_key", type |-> "name"]>>
      [] kind = "transaction" ->
           CommonFields \o <<[name |-> "amount", type |-> "int"],
                             [name |-> "destination", type |-> "name"],
                             [name |-> "parameters", type |-> "optfield"]>>
      [] kind = "origination" ->
           CommonFields \o <<[name |-> "manager_pubkey", type |-> "name"],
                             [name |-> "balance", type |-> "int"],
                             [name |-> "spendable", type |-> "bool"],
                             [name |-> "delegatable", type |-> "bool"],
                             [name |-> "delegate", type |-> "optname"],
                             [name |-> "script", type |-> "script"]>>
      [] kind = "delegation" -> CommonFields \o <<[name |-> "delegate", type |-> "optname"]>>

writeField(v, type) ==
    CASE type = "int" -> writeInt(ParseInt(v))
      [] type = "name" -> writeName(v)
      [] type = "bool" -> writeBoolean(v)
      [] type = "optname" -> writeOptionalName(v)
      [] type = "script" -> writeBoolean(v # Undefined)
      [] type = "optfield" -> writeOptionalName(v)

\* The value of a field; a field the record does not have is undefined.
FieldOf(op, name) == IF name \in DOMAIN op THEN op[name] ELSE Undefined

RECURSIVE writeFields(_, _)
writeFields(op, fields) ==
    IF Len(fields) = 0 THEN <<>>
    ELSE writeField(FieldOf(op, Head(fields).name), Head(fields).type)
         \o writeFields(op, Tail(fields))

encodeOperation(op) == writeByte(KindTag(op.kind)) \o writeFields(op, WireFields(op.kind))

\* Readers: each takes the bytes and a position and gives [v |-> value, p |-> next position].
RECURSIVE readInt(_, _)
readInt(bytes, p) ==
    IF bytes[p] < 128 THEN [v |-> bytes[p], p |-> p + 1]
    ELSE [v |-> (bytes[p] - 128) + 128 * readInt(bytes, p + 1).v,
          p |-> readInt(bytes, p + 1).p]

readField(bytes, p, type) ==
    CASE type = "int" -> [v |-> ToString(readInt(bytes, p).v), p |-> readInt(bytes, p).p]
      [] type = "name" -> [v |-> CodeName(bytes[p]), p |-> p + 1]
      [] type = "bool" -> [v |-> bytes[p] = 255, p |-> p + 1]
      [] type = "optname" -> IF bytes[p] = 255 THEN [v |-> CodeName(bytes[p + 1]), p |-> p + 2]
                             ELSE [v |-> Undefined, p |-> p + 1]
      [] type = "script" -> [v |-> IF bytes[p] = 255 THEN "script" ELSE Undefined, p |-> p + 1]
      [] type = "optfield" -> IF bytes[p] = 255 THEN [v |-> CodeName(bytes[p + 1]), p |-> p + 2]
                              ELSE [v |-> Undefined, p |-> p + 1]

\* An optional field that is not on the wire is left out of the record.
WithField(op, name, v) ==
    IF name = "parameters" /\ v = Undefined THEN op
    ELSE [f \in DOMAIN op \cup {name} |-> IF f = name THEN v ELSE op[f]]

RECURSIVE readFields(_, _, _, _)
readFields(bytes, p, fields, op) ==
    IF Len(fields) = 0 THEN [v |-> op, p |-> p]
    ELSE readFields(bytes, readField(bytes, p, Head(fields).type).p, Tail(fields),
                    WithField(op, Head(fields).name, readField(bytes, p, Head(fields).type).v))

readOperation(bytes, p) ==
    readFields(bytes, p + 1, WireFields(TagKind(bytes[p])), [kind |-> TagKind(bytes[p])])

RECURSIVE readOperations(_, _)
readOperations(bytes, p) ==
    IF p > Len(bytes) THEN <<>>
    ELSE <<readOperation(bytes, p).v>> \o readOperations(bytes, readOperation(bytes, p).p)

\* TezosMessageCodec.parseOperationGroup(hex): the operations after the branch.
parseOperationGroup(hex) == readOperations(BufferFromHex(hex), 2)

-----------------------------------------------------------------------------
(* forgeOperations, lines 80-87: encoded starts as the branch and          *)
(* operations.forEach appends each operation's encoding, first to last.    *)

RECURSIVE ForEachEncode(_, _)
ForEachEncode(encoded, operations) ==
    IF Len(operations) = 0 THEN encoded
    ELSE ForEachEncode(encoded \o encodeOperation(Head(operations)), Tail(operations))

\* Variant: each operation is put in front of what was encoded so far.
RECURSIVE ForEachEncodeInFront(_, _)
ForEachEncodeInFront(encoded, operations) ==
    IF Len(operations) = 0 THEN encoded
    ELSE ForEachEncodeInFront(encodeOperation(Head(operations)) \o encoded, Tail(operations))

forgeOperationsInFront(branch, operations) == ForEachEncodeInFront(writeBranch(branch), operations)

forgeOperations(branch, operations) == ForEachEncode(writeBranch(branch), operations)

-----------------------------------------------------------------------------
(* Response texts.  The body of an HTTP response is a sequence of           *)
(* one-character strings; a cleaned hex text becomes a hex string (a        *)
(* sequence of hex digits) through HexOfText.                               *)

HexChars == <<"0", "1", "2", "3", "4", "5", "6", "7", "8", "9", "a", "b", "c", "d", "e", "f">>

TextOfHex(hex) == [i \in 1..Len(hex) |-> HexChars[hex[i] + 1]]

HexOfText(text) ==
    [i \in 1..Len(text) |-> CHOOSE d \in HexDigits : HexChars[d + 1] = text[i]]

\* text.replace(/\n/g, '').replace(/['"]+/g, '')   (line 105)
CleanForged(text) == SelectSeq(text, LAMBDA ch : ch \notin {"\n", "'", "\""})

-----------------------------------------------------------------------------
(* signOperationGroup, lines 50-69.  SignerCall is what the call hands to   *)
(* the signing backend; opSignature is the Buffer the backend returns.      *)
(* CryptoUtils.simpleHash and the hint codecs are external: a hash is the   *)
(* record of its input and length, a hinted text the record of its hint and *)
(* bytes.                                                                   *)

simpleHash(bytes, length) == [hashOf |-> bytes, length |-> length]
writeKeyWithHint(key, hint) == [hint |-> hint, key |-> key]
readSignatureWithHint(bytes, hint) == [hint |-> hint, bytes |-> bytes]

watermarkedForgedOperationBytesHex(forgedOperation) == OperationGroupWatermark \o forgedOperation

\* Variant: the hardware backend is chosen when a derivation path is given.
SignerCallByDerivationPath(forgedOperation, keyStore, derivationPath) ==
    IF derivationPath # ""
    THEN [backend |-> "LedgerUtils.signTezosOperation", path |-> derivationPath,
          hex |-> watermarkedForgedOperationBytesHex(forgedOperation)]
    ELSE [backend |-> "CryptoUtils.signDetached",
          hash |-> simpleHash(BufferFromHex(watermarkedForgedOperationBytesHex(forgedOperation)), 32),
          key |-> writeKeyWithHint(keyStore.privateKey, "edsk")]

SignerCall(forgedOperation, keyStore, derivationPath) ==
    IF keyStore.storeType = "Hardware"
    THEN [backend |-> "LedgerUtils.signTezosOperation", path |-> derivationPath,
          hex |-> watermarkedForgedOperationBytesHex(forgedOperation)]
    ELSE [backend |-> "CryptoUtils.signDetached",
          hash |-> simpleHash(BufferFromHex(watermarkedForgedOperationBytesHex(forgedOperation)), 32),
          key |-> writeKeyWithHint(keyStore.privateKey, "edsk")]

\* Variant: the signed bytes are built from the watermarked hex.
signOperationGroupKeepsWatermark(forgedOperation, opSignature) ==
    [bytes |-> BufferFromHex(watermarkedForgedOperationBytesHex(forgedOperation)) \o opSignature,
     signature |-> readSignatureWithHint(opSignature, "edsig")]

signOperationGroup(forgedOperation, opSignature) ==
    [bytes |-> BufferFromHex(forgedOperation) \o opSignature,
     signature |-> readSignatureWithHint(opSignature, "edsig")]

-----------------------------------------------------------------------------
(* checkAppliedOperationResults, lines 175-190: "ok", or the error thrown.  *)
(* appliedOp is the parsed preapply response; a result without a top-level  *)
(* kind has kind Absent.                                                    *)

Absent == "absent"
validAppliedKinds == {"activate_account", "reveal", "transaction", "origination", "delegation"}

\* Variant: only the top-level kind of the first result is checked.
checkAppliedTopLevelOnly(appliedOp) ==
    IF Len(appliedOp) = 0 THEN "TypeError"
    ELSE IF appliedOp[1].kind # Absent /\ appliedOp[1].kind \notin validAppliedKinds
         THEN "AppliedResultError:id"
         ELSE "ok"

\* Variant: every result of the array is checked, not only the first.
checkAppliedEveryResult(appliedOp) ==
    IF Len(appliedOp) = 0 THEN "TypeError"
    ELSE IF \E r \in 1..Len(appliedOp) :
               appliedOp[r].kind # Absent /\ appliedOp[r].kind \notin validAppliedKinds
         THEN "AppliedResultError:id"
         ELSE IF \E r \in 1..Len(appliedOp) : \E i \in 1..Len(appliedOp[r].contents) :
                    appliedOp[r].contents[i].kind \notin validAppliedKinds
              THEN "AppliedResultError:metadata"
              ELSE "ok"

checkAppliedOperationResults(appliedOp) ==
    IF Len(appliedOp) = 0 THEN "TypeError"
    ELSE LET firstAppliedOp == appliedOp[1] IN
         IF firstAppliedOp.kind # Absent /\ firstAppliedOp.kind \notin validAppliedKinds
         THEN "AppliedResultError:id"
         ELSE IF \E i \in 1..Len(firstAppliedOp.contents) :
                    firstAppliedOp.contents[i].kind \notin validAppliedKinds
              THEN "AppliedResultError:metadata"
              ELSE "ok"

-----------------------------------------------------------------------------
(* forgeOperationsRemotely, lines 99-137, after the response text arrived.  *)

\* for (let t in optypes): the enumerable keys of an array are its indices, as strings
ForInKeys(array) == [i \in 1..Len(array) |-> HexChars[i]]

RECURSIVE ValidateLoop(_, _)
ValidateLoop(keys, validate) ==
    IF Len(keys) = 0 THEN validate
    ELSE LET v == Head(keys) \in {"reveal", "transaction", "delegation", "origination"}
         IN IF v THEN TRUE ELSE ValidateLoop(Tail(keys), v)

ForgedMismatch(clientop, serverop) ==
    CASE clientop.kind = "transaction" ->
           IF serverop.kind # clientop.kind THEN TRUE
           ELSE serverop.fee # clientop.fee \/ serverop.amount # clientop.amount
                \/ serverop.destination # clientop.destination
      [] clientop.kind = "delegation" ->
           IF serverop.kind # clientop.kind THEN TRUE
           ELSE serverop.fee # clientop.fee \/ serverop.delegate # clientop.delegate
      [] clientop.kind = "origination" ->
           IF serverop.kind # clientop.kind THEN TRUE
           ELSE serverop.fee # clientop.fee \/ serverop.balance # clientop.balance
                \/ serverop.spendable # clientop.spendable
                \/ serverop.delegatable # clientop.delegatable
                \/ serverop.delegate # clientop.delegate \/ serverop.script # Undefined
      [] OTHER -> FALSE

RECURSIVE CompareLoop(_, _, _)
CompareLoop(operations, decoded, i) ==
    IF i > Len(operations) THEN "ok"
    ELSE IF i > Len(decoded) THEN "TypeError"
    ELSE IF ForgedMismatch(operations[i], decoded[i])
         THEN IF operations[i].kind = "transaction" THEN "Forged transaction failed validation."
              ELSE IF operations[i].kind = "delegation" THEN "Forged delegation failed validation."
              ELSE "Forged origination failed validation."
         ELSE CompareLoop(operations, decoded, i + 1)

\* Variant: the response is decoded and compared whole for every list of operations.
forgeOperationsRemotelyStrict(forgedOperation, operations) ==
    LET ops == HexOfText(CleanForged(forgedOperation))
    IN [ops |-> ops,
        thrown |-> IF parseOperationGroup(ops) # operations
                   THEN "Forged operation failed validation." ELSE "ok"]

forgeOperationsRemotely(forgedOperation, operations) ==
    LET ops == HexOfText(CleanForged(forgedOperation))
        optypes == [i \in 1..Len(operations) |-> operations[i].kind]
        validate == ValidateLoop(ForInKeys(optypes), FALSE)
        thrown == IF validate THEN CompareLoop(operations, parseOperationGroup(ops), 1) ELSE "ok"
    IN [ops |-> ops, thrown |-> thrown]

-----------------------------------------------------------------------------
(* The operation builders of the public send functions *)

\* sendTransactionOperation, lines 275-284
Transaction(keyStore, to, amount, fee, counter) ==
    [destination |-> to, amount |-> ToString(amount),
     storage_limit |-> ToString(DefaultTransactionStorageLimit),
     gas_limit |-> ToString(DefaultTransactionGasLimit),
     counter |-> ToString(counter), fee |-> ToString(fee),
     source |-> keyStore.publicKeyHash, kind |-> "transaction"]

\* JSON.parse and TezosLanguageUtil.translateMichelsonToMicheline on the parameter
\* texts of the model: "Unit" is Michelson, its Micheline is a JSON text, "{" is
\* not JSON.  The parsed object is named by its primitive.
MichelineUnit == "{ \"prim\": \"Unit\" }"
translateMichelsonToMicheline(text) == IF text = "Unit" THEN MichelineUnit ELSE "{"
JSONParses(text) == text = MichelineUnit
JSONParse(text) == IF text = MichelineUnit THEN "Unit" ELSE Undefined
IsBlank(text) == text \in {"", " "}

\* sendContractInvocationOperation, lines 482-499: the transaction, and the text
\* handed to JSON.parse (Undefined when none is)
ParameterText(parameters, parameterFormat) ==
    IF IsBlank(parameters) THEN Undefined
    ELSE IF parameterFormat = "Michelson" THEN translateMichelsonToMicheline(parameters)
    ELSE IF parameterFormat = "Micheline" THEN parameters
    ELSE Undefined

ContractInvocation(keyStore, to, amount, fee, storageLimit, gasLimit, parameters, parameterFormat, counter) ==
    LET transaction ==
            [destination |-> to, amount |-> ToString(amount),
             storage_limit |-> ToString(storageLimit), gas_limit |-> ToString(gasLimit),
             counter |-> ToString(counter), fee |-> ToString(fee),
             source |-> keyStore.publicKeyHash, kind |-> "transaction"]
        text == ParameterText(parameters, parameterFormat)
    IN IF text = Undefined THEN transaction
       ELSE [f \in DOMAIN transaction \cup {"parameters"} |->
                IF f = "parameters" THEN JSONParse(text) ELSE transaction[f]]

\* sendDelegationOperation, lines 305-313
Delegation(delegator, delegate, fee, counter) ==
    [kind |-> "delegation", source |-> delegator, fee |-> ToString(fee),
     counter |-> ToString(counter),
     storage_limit |-> ToString(DefaultDelegationStorageLimit),
     gas_limit |-> ToString(DefaultDelegationStorageLimit),
     delegate |-> delegate]

\* sendOriginationOperation, lines 435-448 (code is Undefined for an account origination)
Origination(keyStore, amount, delegate, spendable, delegatable, fee, storage_limit, gas_limit, code, counter) ==
    [kind |-> "origination", source |-> keyStore.publicKeyHash, fee |-> ToString(fee),
     counter |-> ToString(counter), gas_limit |-> ToString(gas_limit),
     storage_limit |-> ToString(storage_limit),
     manager_pubkey |-> keyStore.publicKeyHash, balance |-> ToString(amount),
     spendable |-> spendable, delegatable |-> (delegatable /\ delegate # Undefined),
     delegate |-> delegate, script |-> code]

\* sendKeyRevealOperation, lines 535-543
KeyReveal(keyStore, fee, counter) ==
    [kind |-> "reveal", source |-> keyStore.publicKeyHash, fee |-> ToString(fee),
     counter |-> ToString(counter), gas_limit |-> ToString(10000),
     storage_limit |-> ToString(0), public_key |-> keyStore.publicKey]

\* sendIdentityActivationOperation, line 559
Activation(keyStore, activationCode) ==
    [kind |-> "activate_account", pkh |-> keyStore.publicKeyHash, secret |-> activationCode]

\* An operation of a kind that no function of the module builds or names: a caller
\* of the exported forge functions may pass it.
Ballot(source, period, proposal) ==
    [kind |-> "ballot", source |-> source, period |-> ToString(period), proposal |-> proposal]

-----------------------------------------------------------------------------
(* The remote node (an external collaborator, modelled from its RPC        *)
(* contract): per account a counter and a manager-key flag, a head level,  *)
(* and the log of the injection requests it received.                      *)

SigLen == 2          \* bytes of a detached signature in the model

BlockHashes == <<"BLa", "BLb", "BLc", "BLd", "BLe">>
Protocol == "Pt24m4xi"

\* TezosNodeReader.getBlockHead
getBlockHead(n) == [hash |-> BlockHashes[n.head], protocol |-> Protocol]
\* TezosNodeReader.getCounterForAccount
getCounterForAccount(n, account) == n.counter[account]
\* TezosNodeReader.isManagerKeyRevealedForAccount
isManagerKeyRevealedForAccount(n, account) == n.revealed[account]

InjectAcceptedText == <<"\"", "o", "o", "H", "\"", "\n">>
InjectRejectedText == <<"[", "c", "o", "u", "n", "t", "e", "r", "]", "\n">>

\* The operations of an injected hex payload: the signed bytes without the signature.
InjectedOperations(hex) ==
    LET bytes == BufferFromHex(hex)
    IN readOperations(SubSeq(bytes, 1, Len(bytes) - SigLen), 2)

\* The node accepts a group whose stackable operations carry the account's next counters.
NodeAccepts(n, operations) ==
    LET stack == SelectSeq(operations, IsStackable)
    IN \A i \in 1..Len(stack) :
          /\ stack[i].source = stack[1].source
          /\ ParseInt(stack[i].counter) = n.counter[stack[1].source] + i

NodeApply(n, operations) ==
    LET stack == SelectSeq(operations, IsStackable)
    IN IF Len(stack) = 0 THEN n
       ELSE [n EXCEPT !.counter[stack[1].source] = @ + Len(stack),
                      !.revealed[stack[1].source] =
                          @ \/ \E i \in 1..Len(stack) : stack[i].kind = "reveal"]

\* injection/operation?chain=main as the node serves it: the new node state and the response
NodeInject(n, c, hex) ==
    LET operations == InjectedOperations(hex)
        accepted == NodeAccepts(n, operations)
        text == IF accepted THEN InjectAcceptedText ELSE InjectRejectedText
        entry == [call |-> c, hex |-> hex, accepted |-> accepted, text |-> text]
        applied == IF accepted THEN NodeApply(n, operations) ELSE n
    IN [node |-> [applied EXCEPT !.injected = Append(@, entry)], text |-> text]

\* The bodies the preapply endpoint may answer with (the node is not trusted).
AppliedResult(operations) ==
    [kind |-> Absent, id |-> "none",
     contents |-> [i \in 1..Len(operations) |->
                      [kind |-> operations[i].kind, metadata |-> "applied"]]]

BacktrackedResult(operations) ==
    [kind |-> Absent, id |-> "none",
     contents |-> [i \in 1..Len(operations) |->
                      [kind |-> IF i = Len(operations) THEN "backtracked" ELSE operations[i].kind,
                       metadata |-> "backtracked"]]]

PreapplyBodies(operations) ==
    { [text |-> "not json", parses |-> FALSE, json |-> <<>>],
      [text |-> "[]", parses |-> TRUE, json |-> <<>>],
      [text |-> "applied", parses |-> TRUE, json |-> <<AppliedResult(operations)>>],
      [text |-> "backtracked", parses |-> TRUE, json |-> <<BacktrackedResult(operations)>>],
      [text |-> "error kind", parses |-> TRUE,
       json |-> <<[AppliedResult(operations) EXCEPT !.kind = "temporary", !.id = "counter_in_the_past"]>>],
      [text |-> "known kind", parses |-> TRUE,
       json |-> <<[AppliedResult(operations) EXCEPT !.kind = "transaction"]>>],
      [text |-> "applied, backtracked", parses |-> TRUE,
       json |-> <<AppliedResult(operations), BacktrackedResult(operations)>>] }

-----------------------------------------------------------------------------
(* Calls.  A call is one invocation of a public function; its record holds  *)
(* the position (pc) and the locals.  trace lists the pipeline stages the   *)
(* call completed, reqs counts the requests it made per endpoint.           *)

Calls == {"c1", "c2"}

SendFunctions == {"sendTransactionOperation", "sendDelegationOperation",
                  "sendAccountOriginationOperation", "sendContractInvocationOperation",
                  "sendKeyRevealOperation", "sendIdentityActivationOperation"}

UnitFunctions == {"appendRevealOperation", "forgeOperations", "signOperationGroup",
                  "forgeOperationsRemotely"}

NoArgs == [to |-> "tz1C", amount |-> 0, fee |-> 0, feeOmitted |-> FALSE,
           delegator |-> "tz1A", delegate |-> Undefined,
           spendable |-> FALSE, delegatable |-> FALSE, activationCode |-> "secretA",
           storageLimit |-> 0, gasLimit |-> 0, parameters |-> "",
           parameterFormat |-> "Micheline"]

NoReqs == [counter |-> 0, manager |-> 0, head |-> 0, forge |-> 0, preapply |-> 0, inject |-> 0]

IdleCall ==
    [pc |-> "idle", fn |-> "none", keyStore |-> CHOOSE k \in KeyStores : TRUE,
     derivationPath |-> "", args |-> NoArgs, account |-> "tz1A", counter |-> 0,
     chainCounter |-> 0, isKeyRevealed |-> FALSE,
     passed |-> <<>>, passedAfter |-> <<>>, operations |-> <<>>,
     blockHead |-> [hash |-> "none", protocol |-> "none"],
     forged |-> <<>>, signer |-> [backend |-> "none"], opSignature |-> <<>>,
     signed |-> [bytes |-> <<>>, signature |-> readSignatureWithHint(<<>>, "none")],
     payload |-> <<>>, body |-> [text |-> "none", parses |-> FALSE, json |-> <<>>],
     appliedOp |-> <<>>, injectedHex |-> <<>>, responseText |-> <<>>,
     result |-> [results |-> <<>>, operationGroupID |-> <<>>],
     error |-> "none", message |-> <<>>, trace |-> <<>>, reqs |-> NoReqs]

Stages == <<"FetchHead", "Forge", "Sign", "Preapply", "ValidateApplied", "Inject">>

\* Where a call goes after a step: a function called on its own returns.
After(cl, pc) == IF cl.fn \in UnitFunctions THEN "Returned" ELSE pc

Fail(cl, error) == [cl EXCEPT !.pc = "Failed", !.error = error]

-----------------------------------------------------------------------------
(* The public send functions up to their call of sendOperation *)

Amounts == {10000000}
Fees == {100000}
Delegates == {"tz1C", Undefined}
\* parameters and parameterFormat: none (as sendContractPing passes), Micheline,
\* Michelson, and a text that is not JSON
ParameterInputs == {<<"", "Micheline">>, <<MichelineUnit, "Micheline">>,
                    <<"Unit", "Michelson">>, <<"{", "Micheline">>}

ArgSets(fn) ==
    CASE fn = "sendTransactionOperation" ->
           {[NoArgs EXCEPT !.amount = a, !.fee = f] : a \in Amounts, f \in Fees}
      [] fn = "sendDelegationOperation" ->
           {[NoArgs EXCEPT !.delegator = d, !.delegate = g, !.fee = f, !.feeOmitted = o] :
               d \in Accounts, g \in Delegates, f \in Fees, o \in BOOLEAN}
      [] fn = "sendAccountOriginationOperation" ->
           {[NoArgs EXCEPT !.amount = a, !.fee = f, !.delegate = g,
                           !.spendable = TRUE, !.delegatable = TRUE] :
               a \in Amounts, f \in Fees, g \in Delegates}
      [] fn = "sendContractInvocationOperation" ->
           {[NoArgs EXCEPT !.amount = a, !.fee = f, !.storageLimit = 1000,
                           !.gasLimit = 100000, !.parameters = p[1],
                           !.parameterFormat = p[2]] :
               a \in Amounts, f \in Fees, p \in ParameterInputs}
      [] fn = "sendKeyRevealOperation" ->
           {[NoArgs EXCEPT !.fee = f, !.feeOmitted = o] : f \in Fees, o \in BOOLEAN}
      [] fn = "sendIdentityActivationOperation" ->
           {[NoArgs EXCEPT !.activationCode = "secretB"]}

\* The account whose counter and manager key the function queries.
QueriedAccount(fn, keyStore, args) ==
    IF fn = "sendDelegationOperation" THEN args.delegator ELSE keyStore.publicKeyHash

\* The fee parameter with its default (lines 302, 346, 532)
FeeOf(fn, args) ==
    IF ~args.feeOmitted THEN args.fee
    ELSE CASE fn = "sendDelegationOperation" -> DefaultDelegationFee
           [] fn = "sendAccountOriginationOperation" -> DefaultAccountOriginationFee
           [] fn = "sendKeyRevealOperation" -> DefaultKeyRevealFee
           [] OTHER -> args.fee

\* The operation each send function builds once it has the counter.
BuildOperation(cl, counter) ==
    CASE cl.fn = "sendTransactionOperation" ->
           Transaction(cl.keyStore, cl.args.to, cl.args.amount, cl.args.fee, counter)
      [] cl.fn = "sendDelegationOperation" ->
           Delegation(cl.args.delegator, cl.args.delegate, FeeOf(cl.fn, cl.args), counter)
      [] cl.fn = "sendAccountOriginationOperation" ->
           Origination(cl.keyStore, cl.args.amount, cl.args.delegate, cl.args.spendable,
                       cl.args.delegatable, FeeOf(cl.fn, cl.args), 
                       DefaultAccountOriginationStorageLimit,
                       DefaultAccountOriginationGasLimit, Undefined, counter)
      [] cl.fn = "sendContractInvocationOperation" ->
           ContractInvocation(cl.keyStore, cl.args.to, cl.args.amount, cl.args.fee,
                              cl.args.storageLimit, cl.args.gasLimit, cl.args.parameters,
                              cl.args.parameterFormat, counter)
      [] cl.fn = "sendKeyRevealOperation" ->
           KeyReveal(cl.keyStore, FeeOf(cl.fn, cl.args), counter)

\* Building the operation throws when JSON.parse rejects the parameters (lines 493-499).
BuildThrows(cl) ==
    /\ cl.fn = "sendContractInvocationOperation"
    /\ ParameterText(cl.args.parameters, cl.args.parameterFormat) # Undefined
    /\ ~JSONParses(ParameterText(cl.args.parameters, cl.args.parameterFormat))

\* A call of a public send function with its arguments, about to run its first
\* statement.
StartedCall(fn, ks, args) ==
    LET cl == [IdleCall EXCEPT !.fn = fn, !.keyStore = ks, !.args = args,
                   !.derivationPath = "44'/1729'/0'/0'/0'",
                   !.account = QueriedAccount(fn, ks, args)]
    IN IF fn = "sendIdentityActivationOperation"
       THEN [cl EXCEPT !.pc = "FetchHead",
                       !.operations = <<Activation(ks, args.activationCode)>>]
       ELSE [cl EXCEPT !.pc = "GetCounter"]

\* A public send function is called (lines 272, 302, 346, 468, 532, 558).
Start(c) ==
    /\ c \in active
    /\ call[c].pc = "idle"
    /\ \E fn \in SendFunctions, ks \in KeyStores :
         \E args \in ArgSets(fn) :
           call' = [call EXCEPT ![c] = StartedCall(fn, ks, args)]
    /\ UNCHANGED <<node, node0, active>>

\* Variant: the counter comes from the value the account had when the first call
\* started, not from a query of the node as it is now.
GetCounterCached(c) ==
    /\ call[c].pc = "GetCounter"
    /\ LET cl == [call[c] EXCEPT !.reqs.counter = @ + 1]
           chain == getCounterForAccount(node0, cl.account)
           counter == chain + 1
       IN call' = [call EXCEPT ![c] =
             IF BuildThrows(cl) THEN Fail(cl, "SyntaxError")
             ELSE IF cl.fn = "sendKeyRevealOperation"
                  THEN [cl EXCEPT !.pc = "FetchHead", !.chainCounter = chain, !.counter = counter,
                                  !.operations = <<BuildOperation(cl, counter)>>]
                  ELSE [cl EXCEPT !.pc = "AppendReveal", !.chainCounter = chain,
                                  !.counter = counter, !.passed = <<BuildOperation(cl, counter)>>]]
    /\ UNCHANGED <<node, node0, active>>

\* Variant: a call waits with its counter query while another call for the same
\* account is in flight.
GetCounterSerialized(c) ==
    /\ call[c].pc = "GetCounter"
    /\ \A d \in Calls \ {c} :
          call[d].account = call[c].account => call[d].pc \in {"idle", "GetCounter", "Done", "Failed"}
    /\ LET cl == [call[c] EXCEPT !.reqs.counter = @ + 1]
           chain == getCounterForAccount(node, cl.account)
           counter == chain + 1
       IN call' = [call EXCEPT ![c] =
             IF BuildThrows(cl) THEN Fail(cl, "SyntaxError")
             ELSE IF cl.fn = "sendKeyRevealOperation"
                  THEN [cl EXCEPT !.pc = "FetchHead", !.chainCounter = chain, !.counter = counter,
                                  !.operations = <<BuildOperation(cl, counter)>>]
                  ELSE [cl EXCEPT !.pc = "AppendReveal", !.chainCounter = chain,
                                  !.counter = counter, !.passed = <<BuildOperation(cl, counter)>>]]
    /\ UNCHANGED <<node, node0, active>>

\* Variant: sendKeyRevealOperation hands its operation to appendRevealOperation as
\* the other send functions do.
GetCounterThenBundle(c) ==
    /\ call[c].pc = "GetCounter"
    /\ \E ok \in BOOLEAN :
         LET cl == [call[c] EXCEPT !.reqs.counter = @ + 1]
             chain == getCounterForAccount(node, cl.account)
             counter == chain + 1
             built == IF BuildThrows(cl) THEN <<>> ELSE <<BuildOperation(cl, counter)>>
         IN call' = [call EXCEPT ![c] =
               IF ~ok THEN Fail(cl, "ChainQueryError")
               ELSE IF BuildThrows(cl)
                    THEN Fail([cl EXCEPT !.chainCounter = chain, !.counter = counter],
                              "SyntaxError")
               ELSE [cl EXCEPT !.pc = "AppendReveal", !.chainCounter = chain,
                               !.counter = counter, !.passed = built]]
    /\ UNCHANGED <<node, node0, active>>

\* await TezosNodeReader.getCounterForAccount(...) + 1, then the operation is built
\* (lines 273-284, 303-313, 433-448, 533-544).
GetCounter(c) ==
    /\ call[c].pc = "GetCounter"
    /\ \E ok \in BOOLEAN :
         LET cl == [call[c] EXCEPT !.reqs.counter = @ + 1]
             chain == getCounterForAccount(node, cl.account)
             counter == chain + 1
             built == IF BuildThrows(cl) THEN <<>> ELSE <<BuildOperation(cl, counter)>>
         IN call' = [call EXCEPT ![c] =
               IF ~ok THEN Fail(cl, "ChainQueryError")
               ELSE IF BuildThrows(cl)
                    THEN Fail([cl EXCEPT !.chainCounter = chain, !.counter = counter],
                              "SyntaxError")
               ELSE IF cl.fn = "sendKeyRevealOperation"
                    THEN [cl EXCEPT !.pc = "FetchHead", !.chainCounter = chain,
                                    !.counter = counter, !.operations = built]
                    ELSE [cl EXCEPT !.pc = "AppendReveal", !.chainCounter = chain,
                                    !.counter = counter, !.passed = built]]
    /\ UNCHANGED <<node, node0, active>>

\* await appendRevealOperation(server, keyStore, account, counter - 1, [operation])
\* (lines 286, 314, 449 and 235-259).
AppendReveal(c) ==
    /\ call[c].pc = "AppendReveal"
    /\ \E ok \in BOOLEAN :
         LET cl == [call[c] EXCEPT !.reqs.manager = @ + 1]
             isKeyRevealed == isManagerKeyRevealedForAccount(node, cl.account)
             r == appendRevealOperation(isKeyRevealed, cl.keyStore, cl.account,
                                        cl.counter - 1, cl.passed)
         IN call' = [call EXCEPT ![c] =
               IF ~ok THEN Fail(cl, "ChainQueryError")
               ELSE [cl EXCEPT !.pc = After(cl, "FetchHead"), !.isKeyRevealed = isKeyRevealed,
                               !.operations = r.ret, !.passedAfter = r.args]]
    /\ UNCHANGED <<node, node0, active>>

-----------------------------------------------------------------------------
(* sendOperation, lines 215-224, one action per stage *)

Signatures == {[i \in 1..SigLen |-> b] : b \in {171, 205}}

Done(cl, stage) == [cl EXCEPT !.trace = Append(@, stage)]

\* Variant: the head read is awaited without ever settling.
FetchHeadNeverSettles(c) ==
    /\ call[c].pc = "FetchHead"
    /\ call[c].reqs.head = 0
    /\ call' = [call EXCEPT ![c].reqs.head = 1]
    /\ UNCHANGED <<node, node0, active>>

\* const blockHead = await TezosNodeReader.getBlockHead(server)   (line 216)
FetchHead(c) ==
    /\ call[c].pc = "FetchHead"
    /\ \E ok \in BOOLEAN :
         LET cl == [call[c] EXCEPT !.reqs.head = @ + 1]
         IN call' = [call EXCEPT ![c] =
               IF ~ok THEN Fail(cl, "ChainQueryError")
               ELSE [Done(cl, "FetchHead") EXCEPT !.pc = "Forge",
                                                  !.blockHead = getBlockHead(node)]]
    /\ UNCHANGED <<node, node0, active>>

\* Variant: the operation list is kept in one place shared by all calls, so a call
\* forges the list another call left there.
ForgeSharedOperations(c) ==
    /\ call[c].pc = "Forge"
    /\ LET cl == call[c]
           others == {d \in Calls \ {c} : Len(call[d].operations) > 0}
           shared == IF others = {} THEN cl.operations
                     ELSE call[CHOOSE d \in others : TRUE].operations
       IN call' = [call EXCEPT ![c] =
             [Done(cl, "Forge") EXCEPT !.pc = After(cl, "Sign"),
                                       !.forged = forgeOperations(cl.blockHead.hash, shared)]]
    /\ UNCHANGED <<node, node0, active>>

\* Variant: sendOperation asks the node for the forged bytes, as
\* forgeOperationsRemotely does, and an honest node answers with them.
ForgeOnNode(c) ==
    /\ call[c].pc = "Forge"
    /\ \E ok \in BOOLEAN :
         LET cl == [call[c] EXCEPT !.reqs.forge = @ + 1]
         IN call' = [call EXCEPT ![c] =
               IF ~ok THEN Fail(cl, "NetworkError")
               ELSE [Done(cl, "Forge") EXCEPT
                        !.pc = After(cl, "Sign"),
                        !.forged = forgeOperations(cl.blockHead.hash, cl.operations)]]
    /\ UNCHANGED <<node, node0, active>>

\* const forgedOperationGroup = forgeOperations(blockHead.hash, operations)   (line 217)
\* The codec may throw on a field it cannot encode.
Forge(c) ==
    /\ call[c].pc = "Forge"
    /\ \E ok \in BOOLEAN :
         LET cl == call[c]
         IN call' = [call EXCEPT ![c] =
               IF ~ok THEN Fail(cl, "ForgeError")
               ELSE [Done(cl, "Forge") EXCEPT
                        !.pc = After(cl, "Sign"),
                        !.forged = forgeOperations(cl.blockHead.hash, cl.operations)]]
    /\ UNCHANGED <<node, node0, active>>

\* const signedOpGroup = await signOperationGroup(forgedOperationGroup, keyStore, derivationPath)
\* (line 218): the backend answers with a signature or fails.
Sign(c) ==
    /\ call[c].pc = "Sign"
    /\ \E ok \in BOOLEAN, opSignature \in Signatures :
         LET cl == [call[c] EXCEPT
                       !.signer = SignerCall(call[c].forged, call[c].keyStore,
                                             call[c].derivationPath)]
         IN call' = [call EXCEPT ![c] =
               IF ~ok THEN Fail(cl, "SigningError")
               ELSE [Done(cl, "Sign") EXCEPT
                        !.pc = After(cl, "Preapply"), !.opSignature = opSignature,
                        !.signed = signOperationGroup(cl.forged, opSignature)]]
    /\ UNCHANGED <<node, node0, active>>

\* Variant: the counters of the operations are assigned again, from the first
\* operation's counter, when the preapply payload is built.
applyOperationPayloadRenumbered(branch, protocol, operations, signedOpGroup) ==
    <<[protocol |-> protocol, branch |-> branch,
       contents |-> [i \in 1..Len(operations) |->
                        IF IsStackable(operations[i])
                        THEN SetCounter(operations[i], ParseInt(operations[1].counter) + i)
                        ELSE operations[i]],
       signature |-> signedOpGroup.signature]>>

\* applyOperation, lines 149-168: the payload, the POST and the parse of the response
applyOperationPayload(branch, protocol, operations, signedOpGroup) ==
    <<[protocol |-> protocol, branch |-> branch, contents |-> operations,
       signature |-> signedOpGroup.signature]>>

\* JSON.stringify(payload), the request body of performPostRequest (line 35): a
\* text from which the value can be read back.
JSONStringify(value) == <<"json", value>>

\* The string a template literal makes of an object (Object.prototype.toString) and
\* of an array (the strings of its elements, joined by commas).
ObjectToString(object) == "[object Object]"
ArrayToString(array) == [i \in 1..Len(array) |-> ObjectToString(array[i])]

\* The message of the error of line 166: fixed words, '${text}', ' for ', ${payload}
applyOperationParseError(text, payload) ==
    <<"Could not parse JSON response from chains/main/blocks/head/helpers/preapply/operation: '",
      text, "' for ", ArrayToString(payload)>>

\* Variant: a response that does not parse is asked for again.
PreapplyRetriesUnparsed(c) ==
    /\ call[c].pc = "Preapply"
    /\ \E body \in PreapplyBodies(call[c].operations) :
         LET cl == [call[c] EXCEPT !.reqs.preapply = @ + 1, !.body = body]
         IN call' = [call EXCEPT ![c] =
               IF ~body.parses THEN cl
               ELSE [Done(cl, "Preapply") EXCEPT !.pc = "ValidateApplied",
                                                 !.appliedOp = body.json]]
    /\ UNCHANGED <<node, node0, active>>

\* Variant: the branch of the preapply payload is the hash of the head as it is
\* when the payload is built.
PreapplyOnCurrentHead(c) ==
    /\ call[c].pc = "Preapply"
    /\ \E ok \in BOOLEAN :
         \E body \in PreapplyBodies(call[c].operations) :
           LET cl == [call[c] EXCEPT
                         !.reqs.preapply = @ + 1,
                         !.payload = applyOperationPayload(getBlockHead(node).hash,
                                        call[c].blockHead.protocol, call[c].operations,
                                        call[c].signed)]
           IN call' = [call EXCEPT ![c] =
                 IF ~ok THEN Fail(cl, "NetworkError")
                 ELSE IF ~body.parses
                      THEN Fail([cl EXCEPT !.body = body,
                                           !.message = applyOperationParseError(body.text, cl.payload)],
                                "ResponseParseError")
                 ELSE [Done(cl, "Preapply") EXCEPT !.pc = "ValidateApplied", !.body = body,
                                                   !.appliedOp = body.json]]
    /\ UNCHANGED <<node, node0, active>>

Preapply(c) ==
    /\ call[c].pc = "Preapply"
    /\ \E ok \in BOOLEAN :
         \E body \in PreapplyBodies(call[c].operations) :
           LET cl == [call[c] EXCEPT
                         !.reqs.preapply = @ + 1,
                         !.payload = applyOperationPayload(call[c].blockHead.hash,
                                        call[c].blockHead.protocol, call[c].operations,
                                        call[c].signed)]
           IN call' = [call EXCEPT ![c] =
                 IF ~ok THEN Fail(cl, "NetworkError")
                 ELSE IF ~body.parses
                      THEN Fail([cl EXCEPT !.body = body,
                                           !.message = applyOperationParseError(body.text, cl.payload)],
                                "ResponseParseError")
                 ELSE [Done(cl, "Preapply") EXCEPT !.pc = "ValidateApplied", !.body = body,
                                                   !.appliedOp = body.json]]
    /\ UNCHANGED <<node, node0, active>>

\* checkAppliedOperationResults(appliedOp)   (line 220)
\* Variant: the error of the check is swallowed and the call goes on to inject.
ValidateAppliedSwallows(c) ==
    /\ call[c].pc = "ValidateApplied"
    /\ call' = [call EXCEPT ![c] = [Done(call[c], "ValidateApplied") EXCEPT !.pc = "Inject"]]
    /\ UNCHANGED <<node, node0, active>>

ValidateApplied(c) ==
    /\ call[c].pc = "ValidateApplied"
    /\ LET cl == call[c]
           thrown == checkAppliedOperationResults(cl.appliedOp)
       IN call' = [call EXCEPT ![c] =
             IF thrown # "ok" THEN Fail(cl, thrown)
             ELSE [Done(cl, "ValidateApplied") EXCEPT !.pc = "Inject"]]
    /\ UNCHANGED <<node, node0, active>>

\* injectOperation, lines 199-204: the hex of the signed bytes is posted and the
\* response text is returned.
injectOperationPayload(signedOpGroup) == BufferToHex(signedOpGroup.bytes)
\* Variant: the response text is cleaned as forgeOperationsRemotely cleans its own.
injectOperationCleaned(responseText) == CleanForged(responseText)

injectOperation(responseText) == responseText

\* const injectedOperation = await injectOperation(server, signedOpGroup);
\* return { results: appliedOp[0], operationGroupID: injectedOperation }   (lines 221-223)
\* The request may be lost, or served with the answer lost, or served and answered.
Inject(c) ==
    /\ call[c].pc = "Inject"
    /\ \E net \in {"lost", "no answer", "answered"} :
         LET hex == injectOperationPayload(call[c].signed)
             cl == [call[c] EXCEPT !.reqs.inject = @ + 1, !.injectedHex = hex]
             served == NodeInject(node, c, hex)
         IN /\ node' = IF net = "lost" THEN node ELSE served.node
            /\ call' = [call EXCEPT ![c] =
                  IF net # "answered" THEN Fail(cl, "NetworkError")
                  ELSE [Done(cl, "Inject") EXCEPT
                           !.pc = "Done", !.responseText = served.text,
                           !.result = [results |-> cl.appliedOp[1],
                                       operationGroupID |-> injectOperation(served.text)]]]
    /\ UNCHANGED <<node0, active>>

\* The chain grows a block while calls are in flight.
AdvanceHead ==
    /\ node.head < MaxHead
    /\ node' = [node EXCEPT !.head = @ + 1]
    /\ UNCHANGED <<node0, call, active>>

-----------------------------------------------------------------------------
(* The node's answer to forgeOperationsRemotely, lines 103-104: the quoted  *)
(* hex of a forge of the operations, or of operations the node altered.     *)

Tampered(op) ==
    {op} \cup
    CASE op.kind = "transaction" -> {[op EXCEPT !.amount = ToString(ParseInt(@) + 1)],
                                     [op EXCEPT !.destination = "tz1B"]}
      [] op.kind = "delegation" -> {[op EXCEPT !.delegate = "tz1B"]}
      [] op.kind = "origination" -> {[op EXCEPT !.balance = ToString(ParseInt(@) + 1)]}
      [] op.kind = "reveal" -> {[op EXCEPT !.fee = ToString(ParseInt(@) + 1)]}
      [] op.kind = "activate_account" -> {[op EXCEPT !.secret = "secretB"]}
      [] op.kind = "ballot" -> {[op EXCEPT !.proposal = "BLc"]}
      [] OTHER -> {}

\* The lists that differ from operations in at most one operation.
TamperedLists(operations) ==
    {operations} \cup
    UNION {{[operations EXCEPT ![i] = t] : t \in Tampered(operations[i])} :
              i \in 1..Len(operations)}

ForgeResponseText(hex) == <<"\"">> \o TextOfHex(hex) \o <<"\"", "\n">>

ForgeRemotely(c) ==
    /\ call[c].pc = "ForgeRemote"
    /\ \E ok \in BOOLEAN :
         \E served \in TamperedLists(call[c].operations) :
           LET cl == [call[c] EXCEPT !.reqs.forge = @ + 1]
               text == ForgeResponseText(forgeOperations(cl.blockHead.hash, served))
               r == forgeOperationsRemotely(text, cl.operations)
           IN call' = [call EXCEPT ![c] =
                 IF ~ok THEN Fail(cl, "NetworkError")
                 ELSE IF r.thrown # "ok" THEN Fail([cl EXCEPT !.responseText = text], r.thrown)
                 ELSE [cl EXCEPT !.pc = "Returned", !.responseText = text, !.forged = r.ops]]
    /\ UNCHANGED <<node, node0, active>>

-----------------------------------------------------------------------------
(* Specifications *)

NodeStates ==
    {[counter |-> cs, revealed |-> rv, head |-> 1, injected |-> <<>>] :
        cs \in [Accounts -> {5, 9}], rv \in [Accounts -> BOOLEAN]}

\* The pipeline: one call of a public send function against the node.
Init ==
    /\ node \in NodeStates
    /\ node0 = node
    /\ active = {"c1"}
    /\ call = [c \in Calls |-> IdleCall]

Next ==
    \/ \E c \in Calls : Start(c)
    \/ \E c \in Calls : GetCounter(c)
    \/ \E c \in Calls : AppendReveal(c)
    \/ \E c \in Calls : FetchHead(c)
    \/ \E c \in Calls : Forge(c)
    \/ \E c \in Calls : Sign(c)
    \/ \E c \in Calls : Preapply(c)
    \/ \E c \in Calls : ValidateApplied(c)
    \/ \E c \in Calls : Inject(c)
    \/ AdvanceHead

Spec == Init /\ [][Next]_vars

\* The steps of one call after it started.
Step(c) ==
    \/ GetCounter(c) \/ AppendReveal(c) \/ FetchHead(c) \/ Forge(c) \/ Sign(c)
    \/ Preapply(c) \/ ValidateApplied(c) \/ Inject(c)


-----------------------------------------------------------------------------
(* Specifications of the exported functions called on their own: the        *)
(* inputs are drawn in the initial state and the function's action runs.    *)

KeyStoreA == CHOOSE k \in KeyStores : k.publicKeyHash = "tz1A"

\* Stackable operations as a caller may pass them, with counters of its own choosing.
StackableInputs ==
    { Transaction(KeyStoreA, "tz1C", 1, 2, 7),
      Delegation("tz1B", "tz1C", 3, 0),
      Origination(KeyStoreA, 4, Undefined, TRUE, FALSE, 5, 277, 10160, Undefined, 12) }

OperationInputs ==
    StackableInputs \cup { KeyReveal(KeyStoreA, 0, 3), Activation(KeyStoreA, "secretA"),
                           Ballot("tz1B", 12, "BLb") }

ListsOf(S) == UNION {[1..n -> S] : n \in 0..MaxOps}

HexInputs == UNION {[1..n -> {0, 3, 15}] : n \in 0..MaxHexLen}

QuietNode == [counter |-> [a \in Accounts |-> 5], revealed |-> [a \in Accounts |-> FALSE],
              head |-> 1, injected |-> <<>>]

UnitInit(cl) ==
    /\ node0 = node
    /\ active = {"c1"}
    /\ call = [c \in Calls |-> IF c = "c1" THEN cl ELSE IdleCall]

\* appendRevealOperation(server, keyStore, accountHash, accountOperationIndex, operations)
InitBundle ==
    /\ node \in {[QuietNode EXCEPT !.revealed = rv] : rv \in [Accounts -> BOOLEAN]}
    /\ \E ks \in KeyStores, account \in Accounts, base \in 0..MaxBase :
         \E operations \in ListsOf(StackableInputs) :
           UnitInit([IdleCall EXCEPT !.fn = "appendRevealOperation", !.pc = "AppendReveal",
                        !.keyStore = ks, !.account = account, !.counter = base + 1,
                        !.passed = operations])

NextBundle == \E c \in Calls : AppendReveal(c)

SpecBundle == InitBundle /\ [][NextBundle]_vars

\* forgeOperations(branch, operations)
InitForge ==
    /\ node = QuietNode
    /\ \E branch \in {"BLa", "BLc"} :
         \E operations \in ListsOf(OperationInputs) :
           UnitInit([IdleCall EXCEPT !.fn = "forgeOperations", !.pc = "Forge",
                        !.blockHead = [hash |-> branch, protocol |-> Protocol],
                        !.operations = operations])

NextForge == \E c \in Calls : Forge(c)

SpecForge == InitForge /\ [][NextForge]_vars

\* The key stores handed to signOperationGroup: one of each store type.
SignKeyStores ==
    KeyStores \cup {[publicKey |-> "edpkB", privateKey |-> "edskB", publicKeyHash |-> "tz1B",
                     storeType |-> "Software"]}

\* signOperationGroup(forgedOperation, keyStore, derivationPath)
InitSign ==
    /\ node = QuietNode
    /\ \E ks \in SignKeyStores, forgedOperation \in HexInputs,
          derivationPath \in {"", "44'/1729'/0'/0'/0'"} :
         UnitInit([IdleCall EXCEPT !.fn = "signOperationGroup", !.pc = "Sign",
                      !.keyStore = ks, !.derivationPath = derivationPath,
                      !.forged = forgedOperation])

NextSign == \E c \in Calls : Sign(c)

SpecSign == InitSign /\ [][NextSign]_vars

\* forgeOperationsRemotely(server, blockHead, operations)
InitRemote ==
    /\ node = QuietNode
    /\ \E branch \in {"BLa", "BLc"} :
         \E operations \in ListsOf(OperationInputs) :
           UnitInit([IdleCall EXCEPT !.fn = "forgeOperationsRemotely", !.pc = "ForgeRemote",
                        !.blockHead = [hash |-> branch, protocol |-> Protocol],
                        !.operations = operations])

NextRemote == \E c \in Calls : ForgeRemotely(c)

SpecRemote == InitRemote /\ [][NextRemote]_vars

-----------------------------------------------------------------------------
(* Several submissions.  The caller of the send functions is outside the    *)
(* module: in the sequential specification it awaits each send before it    *)
(* calls the next, in the concurrent one both calls are in flight at once.  *)

Terminal(cl) == cl.pc \in {"Done", "Failed"}

StackableSends == SendFunctions \ {"sendIdentityActivationOperation"}

\* One call of each stackable send function for the account tz1A.
SequenceInputs ==
    UNION {{StartedCall(fn, KeyStoreA, args) :
               args \in {a \in ArgSets(fn) : /\ a.delegator = "tz1A" /\ ~a.feeOmitted
                                              /\ a.delegate = Undefined
                                              /\ a.parameters = ""}} :
           fn \in StackableSends}

\* The caller awaited every send it made and calls the next one.
Submit(c) ==
    /\ c \notin active
    /\ \A d \in active : Terminal(call[d])
    /\ \E cl \in SequenceInputs : call' = [call EXCEPT ![c] = cl]
    /\ active' = active \cup {c}
    /\ UNCHANGED <<node, node0>>

InitSequence ==
    /\ node \in {[QuietNode EXCEPT !.revealed["tz1A"] = rv] : rv \in BOOLEAN}
    /\ node0 = node
    /\ active = {"c1"}
    /\ \E cl \in SequenceInputs : call = [c \in Calls |-> IF c = "c1" THEN cl ELSE IdleCall]

NextSequence ==
    \/ \E c \in Calls : Submit(c)
    \/ \E c \in Calls : GetCounter(c)
    \/ \E c \in Calls : AppendReveal(c)
    \/ \E c \in Calls : FetchHead(c)
    \/ \E c \in Calls : Forge(c)
    \/ \E c \in Calls : Sign(c)
    \/ \E c \in Calls : Preapply(c)
    \/ \E c \in Calls : ValidateApplied(c)
    \/ \E c \in Calls : Inject(c)

SpecSequence == InitSequence /\ [][NextSequence]_vars

\* Two calls in flight at once: sendTransactionOperation for tz1A, and a second
\* call for the same or for the other account.  The head stays where it is while
\* the two run.
PairInputs ==
    {StartedCall("sendTransactionOperation", ks, args) :
        ks \in KeyStores, args \in ArgSets("sendTransactionOperation")}

InitPair ==
    /\ node \in {[QuietNode EXCEPT !.revealed = rv] : rv \in [Accounts -> BOOLEAN]}
    /\ node0 = node
    /\ active = Calls
    /\ \E cl \in PairInputs :
          call = [c \in Calls |->
                    IF c = "c1" THEN StartedCall("sendTransactionOperation", KeyStoreA,
                                         CHOOSE a \in ArgSets("sendTransactionOperation") : TRUE)
                    ELSE cl]

NextPair ==
    \/ \E c \in Calls : GetCounter(c)
    \/ \E c \in Calls : AppendReveal(c)
    \/ \E c \in Calls : FetchHead(c)
    \/ \E c \in Calls : Forge(c)
    \/ \E c \in Calls : Sign(c)
    \/ \E c \in Calls : Preapply(c)
    \/ \E c \in Calls : ValidateApplied(c)
    \/ \E c \in Calls : Inject(c)

SpecPair == InitPair /\ [][NextPair]_vars

-----------------------------------------------------------------------------
(* Completion of a call *)

\* One call of sendKeyRevealOperation, sendTransactionOperation,
\* sendAccountOriginationOperation or sendDelegationOperation (the calls of the
\* tests, lines 661-719), when every request and the signing backend are answered,
\* with a response or with a failure: each await of the call eventually settles.
\* Without this condition an await may stay pending for ever.
LiveInputs ==
    UNION {{StartedCall(fn, ks, args) : ks \in KeyStores, args \in ArgSets(fn)} :
           fn \in {"sendKeyRevealOperation", "sendTransactionOperation",
                    "sendAccountOriginationOperation", "sendDelegationOperation"}}

InitLive ==
    /\ node \in {[QuietNode EXCEPT !.revealed = [a \in Accounts |-> rv]] : rv \in BOOLEAN}
    /\ node0 = node
    /\ active = {"c1"}
    /\ \E cl \in LiveInputs : call = [c \in Calls |-> IF c = "c1" THEN cl ELSE IdleCall]

NextLive ==
    \/ \E c \in Calls : Step(c)
    \/ AdvanceHead

SpecLive == InitLive /\ [][NextLive]_vars /\ \A c \in Calls : WF_vars(Step(c))

-----------------------------------------------------------------------------
(* Properties *)

\* A call of appendRevealOperation that has returned.
Bundled(c) == call[c].fn = "appendRevealOperation" /\ call[c].pc = "Returned"

\* The operation with every field but the counter.
WithoutCounter(op) == [f \in (DOMAIN op) \ {"counter"} |-> op[f]]

\* C1: when the manager key is not revealed, appendRevealOperation returns n+1
\* operations: first a reveal with counter base+1, then the n input operations in
\* their order, input operation i (from 0) with counter base+2+i and its other
\* fields as passed.
C1_UnrevealedBundle ==
    \A c \in Calls :
        (Bundled(c) /\ ~call[c].isKeyRevealed) =>
            LET base == call[c].counter - 1
                input == call[c].passed
                ret == call[c].operations
            IN /\ Len(ret) = Len(input) + 1
               /\ ret[1].kind = "reveal"
               /\ ParseInt(ret[1].counter) = base + 1
               /\ \A i \in 1..Len(input) :
                     /\ ParseInt(ret[i + 1].counter) = base + 2 + (i - 1)
                     /\ WithoutCounter(ret[i + 1]) = WithoutCounter(input[i])

C1_Witness ==
    \E c \in Calls : /\ Bundled(c) /\ ~call[c].isKeyRevealed
                     /\ Len(call[c].passed) = 2 /\ call[c].counter - 1 = 8
                     /\ call[c].passed[1] # call[c].passed[2]

\* C2: when the manager key is revealed, appendRevealOperation returns the input
\* list as it was passed: same length, same order, every field (the counters
\* included) as before the call, and the caller's array is left as it was.
C2_RevealedUnmodified ==
    \A c \in Calls :
        (Bundled(c) /\ call[c].isKeyRevealed) =>
            /\ call[c].operations = call[c].passed
            /\ call[c].passedAfter = call[c].passed

C2_Witness ==
    \E c \in Calls : /\ Bundled(c) /\ call[c].isKeyRevealed
                     /\ Len(call[c].passed) = 2
                     /\ ParseInt(call[c].passed[1].counter) # call[c].counter

\* C15: the reveal that appendRevealOperation creates for an unrevealed account
\* has fee '0', gas_limit '10600', storage_limit '0', the account passed in as
\* source and the key store's public key as public_key, whatever the fees and
\* limits of the operations that follow it.
C15_BundledRevealFields ==
    \A c \in Calls :
        (Bundled(c) /\ ~call[c].isKeyRevealed) =>
            LET reveal == call[c].operations[1] IN
            /\ reveal.kind = "reveal"
            /\ reveal.fee = <<0>>
            /\ reveal.gas_limit = <<1, 0, 6, 0, 0>>
            /\ reveal.storage_limit = <<0>>
            /\ reveal.source = call[c].account
            /\ reveal.public_key = call[c].keyStore.publicKey

C15_Witness ==
    \E c \in Calls : /\ Bundled(c) /\ ~call[c].isKeyRevealed
                     /\ Len(call[c].operations) = 3
                     /\ call[c].account # call[c].keyStore.publicKeyHash
                     /\ call[c].operations[2].fee # <<0>>
                     /\ call[c].operations[3].gas_limit # call[c].operations[2].gas_limit

-----------------------------------------------------------------------------
(* The pipeline of one sendOperation call *)

Has(c, stage) == \E i \in 1..Len(call[c].trace) : call[c].trace[i] = stage

\* The injection requests of call c that the node served.
ServedFrom(c) == SelectSeq(node.injected, LAMBDA e : e.call = c)

\* C3: the stages of a sendOperation call happen in the order FetchHead, Forge,
\* Sign, Preapply, ValidateApplied, Inject, Done: the completed stages are always a
\* prefix of that order, the stage in progress is the next one, Done is reached
\* exactly when all six completed, and the head read, the preapply POST and the
\* injection POST are each made at most once (no retries).
C3_StageOrder ==
    \A c \in Calls :
        LET cl == call[c]
            n == Len(cl.trace)
        IN /\ n <= Len(Stages)
           /\ cl.trace = SubSeq(Stages, 1, n)
           /\ (cl.pc \in {Stages[i] : i \in 1..Len(Stages)}) => cl.pc = Stages[n + 1]
           /\ (cl.pc = "Done") <=> (n = Len(Stages))
           /\ cl.reqs.head <= 1 /\ cl.reqs.preapply <= 1 /\ cl.reqs.inject <= 1
           /\ cl.reqs.forge = 0
           /\ Has(c, "FetchHead") => cl.reqs.head = 1
           /\ Has(c, "Preapply") => cl.reqs.preapply = 1
           /\ Has(c, "Inject") => cl.reqs.inject = 1
           /\ cl.reqs.preapply = 1 => Has(c, "Sign")
           /\ cl.reqs.inject = 1 => Has(c, "ValidateApplied")
           /\ Len(ServedFrom(c)) <= cl.reqs.inject

C3_Witness ==
    \E c \in Calls : /\ call[c].pc = "Done" /\ call[c].trace = Stages
                     /\ call[c].reqs.head = 1 /\ call[c].reqs.preapply = 1
                     /\ call[c].reqs.inject = 1 /\ Len(ServedFrom(c)) = 1

\* C4, in every state: an injection request is made only by a call whose preapply
\* response parsed and whose applied results passed the check; a call that failed
\* has no result, and if it failed before Inject the node served nothing from it;
\* and while no call has made an injection request the node's counters, reveal
\* flags and injection log are those it started with.
C4_NoInjectBeforeValidation ==
    /\ \A c \in Calls :
          /\ call[c].reqs.inject > 0 =>
                /\ Has(c, "ValidateApplied") /\ Has(c, "Preapply") /\ Has(c, "FetchHead")
                /\ call[c].body.parses
                /\ checkAppliedOperationResults(call[c].appliedOp) = "ok"
          /\ call[c].pc = "Failed" =>
                /\ call[c].error # "none"
                /\ call[c].result = IdleCall.result
                /\ call[c].reqs.inject = 0 => Len(ServedFrom(c)) = 0
    /\ (\A c \in Calls : call[c].reqs.inject = 0) =>
          /\ node.counter = node0.counter
          /\ node.revealed = node0.revealed
          /\ node.injected = <<>>

\* C4, in every step: once a call has failed it executes nothing more (its record,
\* request counts included, never changes again).
C4_FailedStays == \A c \in Calls : call[c].pc = "Failed" => call'[c] = call[c]

\* C4: a failure at any stage of the pipeline aborts the call; no later stage runs,
\* the injection request is sent only after validation passed in the same call, and
\* a call that failed before Inject changed no counter of the node.
C4_FailureAborts == []C4_NoInjectBeforeValidation /\ [][C4_FailedStays]_vars

C4_Witness ==
    \E c \in Calls : /\ call[c].pc = "Failed"
                     /\ call[c].error = "AppliedResultError:metadata"
                     /\ call[c].trace = SubSeq(Stages, 1, 4)
                     /\ call[c].reqs.inject = 0
                     /\ node.counter = node0.counter

\* The kinds an applied result may carry.
KnownAppliedKinds == {"activate_account", "reveal", "transaction", "origination", "delegation"}

HasUnknownContent(result) ==
    \E i \in 1..Len(result.contents) : result.contents[i].kind \notin KnownAppliedKinds

AllKindsKnown(result) ==
    /\ result.kind = Absent \/ result.kind \in KnownAppliedKinds
    /\ ~HasUnknownContent(result)

\* C5: when a content entry of the first preapply result has a kind outside the
\* known set, the call fails with an applied-result error and injects nothing; when
\* every kind of the first result is known, the check passes (the call can then
\* fail only at the injection request) and the returned results is that first
\* result as the node sent it.
C5_AppliedValidation ==
    \A c \in Calls :
        LET cl == call[c] IN
        (Has(c, "Preapply") /\ Len(cl.body.json) > 0) =>
            /\ HasUnknownContent(cl.body.json[1]) =>
                  /\ cl.pc \in {"ValidateApplied", "Failed"}
                  /\ cl.pc = "Failed" =>
                        cl.error \in {"AppliedResultError:id", "AppliedResultError:metadata"}
                  /\ cl.reqs.inject = 0 /\ Len(ServedFrom(c)) = 0
            /\ AllKindsKnown(cl.body.json[1]) =>
                  /\ cl.pc \in {"ValidateApplied", "Inject", "Done", "Failed"}
                  /\ cl.pc = "Failed" => (cl.error = "NetworkError" /\ cl.reqs.inject = 1)
                  /\ cl.pc = "Done" => cl.result.results = cl.body.json[1]

C5_Witness ==
    \E c \in Calls : /\ call[c].pc = "Failed" /\ Has(c, "Preapply")
                     /\ call[c].body.text = "backtracked"
                     /\ HasUnknownContent(call[c].body.json[1])
                     /\ call[c].error = "AppliedResultError:metadata"

\* The call got past the check of the applied results.
PassedValidation(c) == Has(c, "ValidateApplied")

\* C16: the check of the applied results looks only at the first element of the
\* preapply array.  A top-level kind of that element that is present and unknown is
\* fatal (the error reports its id); with the top-level kind absent and the kinds
\* of its contents known the check passes; and whatever the second and later
\* elements hold, unknown kinds included, the outcome is that of the first alone.
C16_FirstResultOnly ==
    \A c \in Calls :
        LET cl == call[c]
            first == cl.body.json[1]
            checked == cl.pc # "ValidateApplied"
        IN (Has(c, "Preapply") /\ Len(cl.body.json) > 0) =>
            /\ (first.kind # Absent /\ first.kind \notin KnownAppliedKinds) =>
                  /\ ~PassedValidation(c)
                  /\ checked => (cl.pc = "Failed" /\ cl.error = "AppliedResultError:id")
            /\ (first.kind = Absent /\ ~HasUnknownContent(first)) =>
                  (checked => PassedValidation(c))
            /\ checked =>
                  (PassedValidation(c) <=> AllKindsKnown(first))
            /\ (Len(cl.body.json) > 1 /\ AllKindsKnown(first) /\ checked) =>
                  /\ PassedValidation(c)
                  /\ cl.error \in {"none", "NetworkError"}

C16_Witness ==
    \E c \in Calls : /\ call[c].pc = "Done"
                     /\ Len(call[c].body.json) = 2
                     /\ call[c].body.json[1].kind = Absent
                     /\ HasUnknownContent(call[c].body.json[2])
                     /\ PassedValidation(c)

\* C20: when the preapply response body does not parse as JSON, applyOperation
\* fails, the call reaches neither validation nor injection, and the message of
\* the error holds the raw response body and the request payload (the protocol,
\* branch, contents and signature that were posted).
C20_ParseFailureReported ==
    \A c \in Calls :
        LET cl == call[c] IN
        (cl.reqs.preapply = 1 /\ cl.body.text # "none" /\ ~cl.body.parses) =>
            /\ cl.pc = "Failed" /\ cl.error = "ResponseParseError"
            /\ ~Has(c, "Preapply") /\ ~Has(c, "ValidateApplied")
            /\ cl.reqs.inject = 0 /\ Len(ServedFrom(c)) = 0
            /\ cl.message[2] = cl.body.text
            /\ cl.message[4] = JSONStringify(cl.payload)

-----------------------------------------------------------------------------
(* The exported functions on their own *)

\* A call of forgeOperationsRemotely that received the node's response.
RemoteAnswered(c) ==
    call[c].fn = "forgeOperationsRemotely" /\ Len(call[c].responseText) > 0

NodeHex(c) == HexOfText(CleanForged(call[c].responseText))

\* C6: if the node's forged bytes decode to a transaction whose amount differs
\* from the original transaction's, forgeOperationsRemotely fails with the error
\* naming the transaction; if the decoded operations equal the originals, it
\* returns the node's hex string.
C6_RemoteForgeValidation ==
    \A c \in Calls :
        RemoteAnswered(c) =>
            LET original == call[c].operations
                decoded == parseOperationGroup(NodeHex(c))
            IN /\ (\E i \in 1..Len(original) :
                      /\ original[i].kind = "transaction"
                      /\ decoded[i].kind = "transaction"
                      /\ decoded[i].amount # original[i].amount)
                  => /\ call[c].pc = "Failed"
                     /\ call[c].error = "Forged transaction failed validation."
               /\ decoded = original
                  => /\ call[c].pc = "Returned"
                     /\ call[c].forged = NodeHex(c)

\* The fields on which the decoded operation differs from the original where the
\* comparison of the kind looks: kind and fee, and the fields of the kind.
ComparedFields(kind) ==
    {"kind", "fee"} \cup
    CASE kind = "transaction" -> {"amount", "destination"}
      [] kind = "delegation" -> {"delegate"}
      [] kind = "origination" -> {"balance", "spendable", "delegatable", "delegate", "script"}
      [] OTHER -> {}

DiffersOnCompared(clientop, serverop) ==
    \E f \in ComparedFields(clientop.kind) : FieldOf(serverop, f) # FieldOf(clientop, f)

\* C17: for every operation of kind reveal, transaction, delegation or origination
\* passed to forgeOperationsRemotely, a decoded response that differs from the
\* original on kind, fee or a field specific to the kind makes the call fail; the
\* node's bytes are not returned.
C17_RemoteMismatchFails ==
    \A c \in Calls :
        RemoteAnswered(c) =>
            LET original == call[c].operations
                decoded == parseOperationGroup(NodeHex(c))
            IN (\E i \in 1..Len(original) :
                   /\ original[i].kind \in {"reveal", "transaction", "delegation", "origination"}
                   /\ i <= Len(decoded)
                   /\ DiffersOnCompared(original[i], decoded[i]))
               => (call[c].pc = "Failed" /\ call[c].forged = <<>>)

ValidatedKinds == {"reveal", "transaction", "delegation", "origination"}

\* C18: forgeOperationsRemotely called with operations of kind activate_account or
\* of an unrecognized kind only returns the node's response, cleaned of newlines
\* and quotes, as it was received: it fails on no response, whether or not the
\* response decodes to the operations that were sent.
C18_UnvalidatedKindsPassThrough ==
    \A c \in Calls :
        (/\ RemoteAnswered(c)
         /\ \A i \in 1..Len(call[c].operations) :
               call[c].operations[i].kind \notin ValidatedKinds) =>
            /\ call[c].pc = "Returned"
            /\ call[c].error = "none"
            /\ call[c].forged = NodeHex(c)
            /\ TextOfHex(call[c].forged) = CleanForged(call[c].responseText)
            /\ call[c].reqs.forge = 1

C18_Witness ==
    \E c \in Calls : /\ RemoteAnswered(c) /\ call[c].pc = "Returned"
                     /\ Len(call[c].operations) = 2
                     /\ call[c].operations[1].kind = "activate_account"
                     /\ call[c].operations[2].kind = "ballot"
                     /\ parseOperationGroup(NodeHex(c)) # call[c].operations

\* A call of signOperationGroup that reached the signing backend.
WatermarkBytes == BufferFromHex(OperationGroupWatermark)

\* C7: on the hardware path the backend receives the hex watermark ++ forged, on
\* the software path the 32-byte hash is taken over the bytes watermark ++ forged
\* bytes; in both the watermark is one byte in front of the forged bytes, and the
\* signed bytes returned are the forged bytes followed by the signature bytes.
C7_Signing ==
    \A c \in Calls :
        LET cl == call[c]
            forgedBytes == BufferFromHex(cl.forged)
        IN /\ cl.signer.backend = "LedgerUtils.signTezosOperation" =>
                 /\ cl.keyStore.storeType = "Hardware"
                 /\ cl.signer.hex = OperationGroupWatermark \o cl.forged
                 /\ BufferFromHex(cl.signer.hex) = WatermarkBytes \o forgedBytes
           /\ cl.signer.backend = "CryptoUtils.signDetached" =>
                 /\ cl.keyStore.storeType # "Hardware"
                 /\ cl.signer.hash.hashOf = WatermarkBytes \o forgedBytes
                 /\ cl.signer.hash.length = 32
           /\ Len(WatermarkBytes) = 1
           /\ Has(c, "Sign") =>
                 /\ cl.signer.backend # "none"
                 /\ cl.signed.bytes = forgedBytes \o cl.opSignature
                 /\ Len(cl.signed.bytes) = Len(forgedBytes) + SigLen

C7_Witness ==
    \E c \in Calls : /\ call[c].fn = "signOperationGroup" /\ call[c].pc = "Returned"
                     /\ call[c].signer.backend = "CryptoUtils.signDetached"
                     /\ Len(call[c].forged) = 4
                     /\ call[c].forged[1] = 0 /\ call[c].forged[2] = 3

\* C19: a call of signOperationGroup invokes one signing backend.  With a key
\* store of type Hardware it is the hardware backend, which gets the derivation
\* path and the watermarked hex and neither the private key nor a hash; with any
\* other store type (Software, Fundraiser) it is the software backend, which gets
\* the 32-byte hash of the watermarked bytes and the private key, whatever the
\* derivation path.  Before the call signs, no backend was invoked.
C19_SignerDispatch ==
    \A c \in Calls :
        LET cl == call[c]
            watermarked == OperationGroupWatermark \o cl.forged
        IN (cl.fn = "signOperationGroup") =>
            /\ cl.pc = "Sign" => cl.signer.backend = "none"
            /\ (cl.pc # "Sign" /\ cl.keyStore.storeType = "Hardware") =>
                  /\ cl.signer.backend = "LedgerUtils.signTezosOperation"
                  /\ DOMAIN cl.signer = {"backend", "path", "hex"}
                  /\ cl.signer.path = cl.derivationPath
                  /\ cl.signer.hex = watermarked
            /\ (cl.pc # "Sign" /\ cl.keyStore.storeType # "Hardware") =>
                  /\ cl.signer.backend = "CryptoUtils.signDetached"
                  /\ DOMAIN cl.signer = {"backend", "hash", "key"}
                  /\ cl.signer.hash = [hashOf |-> BufferFromHex(watermarked), length |-> 32]
                  /\ cl.signer.key = [hint |-> "edsk", key |-> cl.keyStore.privateKey]

C19_Witness ==
    \E c \in Calls : /\ call[c].fn = "signOperationGroup" /\ call[c].pc = "Returned"
                     /\ call[c].keyStore.storeType = "Software"
                     /\ call[c].derivationPath # ""
                     /\ call[c].signer.backend = "CryptoUtils.signDetached"
                     /\ Len(call[c].forged) = 4

RECURSIVE EncodedThrough(_, _)
EncodedThrough(operations, n) ==
    IF n = 0 THEN <<>>
    ELSE EncodedThrough(operations, n - 1) \o encodeOperation(operations[n])

\* C8: forgeOperations returns the encoded branch followed by the encoding of each
\* operation in input order (so the result is a function of branch and operations,
\* and it decodes to the operations in their order), and makes no request.
C8_ForgeOrder ==
    \A c \in Calls :
        (call[c].fn = "forgeOperations" /\ call[c].pc = "Returned") =>
            /\ call[c].forged = writeBranch(call[c].blockHead.hash)
                                \o EncodedThrough(call[c].operations, Len(call[c].operations))
            /\ parseOperationGroup(call[c].forged) = call[c].operations
            /\ call[c].reqs = NoReqs
            /\ node = QuietNode

C8_Witness ==
    \E c \in Calls : /\ call[c].fn = "forgeOperations" /\ call[c].pc = "Returned"
                     /\ Len(call[c].operations) = 2
                     /\ call[c].operations[1].kind = "transaction"
                     /\ call[c].operations[2].kind = "reveal"

-----------------------------------------------------------------------------
(* End to end *)

\* Reading the counter, the account had this counter and this manager-key state.
AccountWas(c, counter, revealed) ==
    /\ node0.counter[call[c].account] = counter
    /\ node0.revealed[call[c].account] = revealed

\* The call has called sendOperation: its head request is pending or was made.
Submitting(c) == call[c].pc = "FetchHead" \/ call[c].reqs.head = 1

\* C9: sendTransactionOperation for an account with chain counter 5 and a revealed
\* manager key submits exactly one operation, the transaction, with counter 6 (no
\* reveal): that list is what is forged, preapplied and injected; and the returned
\* operationGroupID is the text of the node's injection response, unaltered and not
\* empty.
C9_TransactionEndToEnd ==
    \A c \in Calls :
        LET cl == call[c] IN
        (cl.fn = "sendTransactionOperation" /\ AccountWas(c, 5, TRUE) /\ Submitting(c)) =>
            /\ Len(cl.operations) = 1
            /\ cl.operations[1].kind = "transaction"
            /\ cl.operations[1].counter = <<6>>
            /\ Has(c, "Forge") => parseOperationGroup(cl.forged) = cl.operations
            /\ cl.reqs.preapply = 1 => cl.payload[1].contents = cl.operations
            /\ \A i \in 1..Len(ServedFrom(c)) :
                  InjectedOperations(ServedFrom(c)[i].hex) = cl.operations
            /\ cl.pc = "Done" =>
                  /\ Len(ServedFrom(c)) = 1
                  /\ cl.result.operationGroupID = ServedFrom(c)[1].text
                  /\ Len(cl.result.operationGroupID) > 0

C9_Witness ==
    \E c \in Calls : /\ call[c].fn = "sendTransactionOperation" /\ AccountWas(c, 5, TRUE)
                     /\ call[c].pc = "Done"
                     /\ ServedFrom(c)[1].accepted
                     /\ call[c].args.amount = 10000000 /\ call[c].args.fee = 100000

\* C10: sendDelegationOperation for an account with chain counter 5 and an
\* unrevealed manager key submits exactly two operations, a reveal with counter 6
\* and then the delegation with counter 7, as one group: one forge holds both, the
\* one preapply payload lists both, and the one injection carries both.
C10_DelegationEndToEnd ==
    \A c \in Calls :
        LET cl == call[c] IN
        (cl.fn = "sendDelegationOperation" /\ AccountWas(c, 5, FALSE) /\ Submitting(c)) =>
            /\ Len(cl.operations) = 2
            /\ cl.operations[1].kind = "reveal" /\ cl.operations[1].counter = <<6>>
            /\ cl.operations[2].kind = "delegation" /\ cl.operations[2].counter = <<7>>
            /\ cl.operations[1].source = cl.args.delegator
            /\ cl.operations[2].source = cl.args.delegator
            /\ Has(c, "Forge") => parseOperationGroup(cl.forged) = cl.operations
            /\ Has(c, "Sign") => cl.signed.bytes = BufferFromHex(cl.forged) \o cl.opSignature
            /\ cl.reqs.preapply = 1 =>
                  (Len(cl.payload) = 1 /\ cl.payload[1].contents = cl.operations)
            /\ Len(ServedFrom(c)) <= 1
            /\ \A i \in 1..Len(ServedFrom(c)) :
                  InjectedOperations(ServedFrom(c)[i].hex) = cl.operations
            /\ cl.pc = "Done" => Len(ServedFrom(c)) = 1

C10_Witness ==
    \E c \in Calls : /\ call[c].fn = "sendDelegationOperation" /\ AccountWas(c, 5, FALSE)
                     /\ call[c].pc = "Done"
                     /\ ServedFrom(c)[1].accepted
                     /\ node.counter[call[c].account] = 7
                     /\ node.revealed[call[c].account]

-----------------------------------------------------------------------------
(* Several submissions *)

\* The node accepted an injection of call c.
Accepted(c) == \E i \in 1..Len(node.injected) :
                  node.injected[i].call = c /\ node.injected[i].accepted

\* The call ran its counter query and got an answer.
CounterRead(cl) ==
    /\ cl.reqs.counter = 1
    /\ ~(cl.error = "ChainQueryError" /\ cl.reqs.manager = 0 /\ cl.reqs.head = 0)

\* C11, in every state: a call of a stackable send function makes exactly one
\* counter query of its own, its counter is the value read plus one, and the first
\* operation of its group carries that counter.
C11_OwnQuery ==
    \A c \in Calls :
        LET cl == call[c] IN
        (cl.fn \in StackableSends) =>
            /\ cl.reqs.counter <= 1
            /\ cl.pc # "GetCounter" => cl.reqs.counter = 1
            /\ CounterRead(cl) => cl.counter = cl.chainCounter + 1
            /\ Len(cl.operations) > 0 =>
                  (CounterRead(cl) /\ ParseInt(cl.operations[1].counter) = cl.chainCounter + 1)

\* C11, in every step: the value a call reads is the node's counter at that moment,
\* so a call that queries after the node accepted an injection of another call for
\* the same account gets a counter strictly larger than that call's.
C11_FreshCounter ==
    \A d \in Calls :
        (call[d].pc = "GetCounter" /\ call'[d].pc # "GetCounter" /\ CounterRead(call'[d])) =>
            /\ call'[d].chainCounter = node.counter[call[d].account]
            /\ \A c \in Calls \ {d} :
                  (Accepted(c) /\ call[c].account = call[d].account) =>
                      /\ call'[d].counter > call[c].counter
                      /\ \A i \in 1..Len(call[c].operations) :
                            call'[d].counter > ParseInt(call[c].operations[i].counter)

\* C11: the counter is never cached: every send call for a stackable operation
\* issues its own getCounterForAccount query and uses that value plus one as its
\* first counter, so in sequential submissions for one account a call that starts
\* after a previous call's accepted injection uses a strictly larger counter.
C11_CounterNeverCached == []C11_OwnQuery /\ [][C11_FreshCounter]_vars

C11_Witness ==
    /\ Accepted("c1") /\ Accepted("c2")
    /\ call["c1"].fn = "sendDelegationOperation" /\ Len(call["c1"].operations) = 2
    /\ call["c2"].fn = "sendContractInvocationOperation"
    /\ call["c2"].pc = "Done"
    /\ call["c1"].counter = 6 /\ call["c2"].counter = 8

\* The injection requests of call c that the node served and accepted / rejected.
Served(c) == Len(ServedFrom(c)) > 0

SameCounterRead(c, d) ==
    /\ c # d /\ call[c].account = call[d].account
    /\ CounterRead(call[c]) /\ CounterRead(call[d])
    /\ call[c].chainCounter = call[d].chainCounter

\* C12: submissions for one account are not serialized.  No call waits for
\* another: a call at its counter query can always run it, whatever the other call
\* is doing.  Two calls for one account that read the same chain counter build
\* their first operations with the same counter, and when the node (which accepts
\* a counter only once) served both injections, it accepted one and rejected the
\* other.  (That such an interleaving is reachable is the witness.)
C12_NotSerialized ==
    /\ \A c \in Calls : call[c].pc = "GetCounter" => ENABLED GetCounter(c)
    /\ \A c, d \in Calls :
          SameCounterRead(c, d) =>
              /\ call[c].counter = call[d].counter
              /\ (Len(call[c].operations) > 0 /\ Len(call[d].operations) > 0) =>
                    call[c].operations[1].counter = call[d].operations[1].counter
              /\ (Served(c) /\ Served(d)) => (Accepted(c) /\ ~Accepted(d)) \/ (Accepted(d) /\ ~Accepted(c))

C12_Witness ==
    /\ SameCounterRead("c1", "c2")
    /\ Len(call["c1"].operations) = 1 /\ Len(call["c2"].operations) = 1
    /\ call["c1"].operations[1].counter = <<6>> /\ call["c2"].operations[1].counter = <<6>>
    /\ Served("c1") /\ Served("c2")
    /\ Accepted("c2") /\ ~Accepted("c1")
    /\ call["c1"].pc = "Done" /\ call["c2"].pc = "Done"

\* The stackable operations of a list.
Stack(operations) == SelectSeq(operations, IsStackable)

\* What the locals of a call are when it runs alone against the node as it was:
\* each is a function of the call's own arguments, of its account's counter and
\* manager key, of the head it read, and of the answers it got itself.
AsAlone(c) ==
    LET cl == call[c]
        chain == node0.counter[cl.account]
        bundle == appendRevealOperation(node0.revealed[cl.account], cl.keyStore, cl.account,
                                        chain, <<BuildOperation(cl, chain + 1)>>).ret
    IN /\ CounterRead(cl) => (cl.chainCounter = chain /\ cl.counter = chain + 1)
       /\ Len(cl.operations) > 0 => cl.operations = bundle
       /\ Has(c, "Forge") => cl.forged = forgeOperations(cl.blockHead.hash, bundle)
       /\ Has(c, "Sign") =>
             /\ cl.signer = SignerCall(cl.forged, cl.keyStore, cl.derivationPath)
             /\ cl.signed = signOperationGroup(forgeOperations(cl.blockHead.hash, bundle),
                                               cl.opSignature)
       /\ cl.reqs.preapply = 1 => cl.payload[1].contents = bundle
       /\ \A i \in 1..Len(ServedFrom(c)) :
             /\ ServedFrom(c)[i].accepted
             /\ InjectedOperations(ServedFrom(c)[i].hex) = bundle
       /\ node.counter[cl.account] = chain + (IF Served(c) THEN Len(Stack(bundle)) ELSE 0)
       /\ cl.pc = "Done" =>
             cl.result = [results |-> cl.body.json[1], operationGroupID |-> InjectAcceptedText]

\* C13: under every interleaving of two concurrent send calls for distinct
\* accounts, each call's operation list, counters, forged bytes, signature and
\* result are what they are when the call runs alone, and its account's counter on
\* the node moves only by its own injection.
C13_DistinctAccountsIndependent ==
    (call["c1"].account # call["c2"].account) => \A c \in Calls : AsAlone(c)

C13_Witness ==
    /\ call["c1"].account # call["c2"].account
    /\ call["c1"].pc = "Done" /\ call["c2"].pc = "Done"
    /\ Accepted("c1") /\ Accepted("c2")
    /\ Len(call["c1"].operations) = 2 /\ Len(call["c2"].operations) = 1
    /\ node.injected[1].call = "c2"

-----------------------------------------------------------------------------
(* Completion *)

\* The request a call is waiting for at each position.
Awaited(pc) == CASE pc = "GetCounter" -> "counter"
                 [] pc = "AppendReveal" -> "manager"
                 [] pc = "FetchHead" -> "head"
                 [] pc = "Preapply" -> "preapply"
                 [] pc = "Inject" -> "inject"
                 [] OTHER -> "none"

\* The failures that come from a request that failed or a backend that threw.
AnswerFailures == {"ChainQueryError", "NetworkError", "SigningError", "ForgeError"}

BadPreapplyBody(body) ==
    \/ ~body.parses
    \/ Len(body.json) = 0
    \/ ~AllKindsKnown(body.json[1])

\* C14, in every state: a call is Done only with every request of its pipeline
\* answered, its result exists and its operationGroupID is a non-empty string; a
\* call fails only through a failed request, signing or forge, through a preapply
\* body that does not parse, is empty or carries an unknown kind, or through
\* contract parameters that are not JSON.
C14_DoneHasResult ==
    \A c \in Calls :
        LET cl == call[c] IN
        /\ cl.pc = "Done" =>
              /\ cl.reqs.head = 1 /\ cl.reqs.preapply = 1 /\ cl.reqs.inject = 1
              /\ cl.fn \in StackableSends => cl.reqs.counter = 1
              /\ Len(cl.appliedOp) > 0 /\ cl.result.results = cl.appliedOp[1]
              /\ Len(cl.result.operationGroupID) > 0
              /\ \A i \in 1..Len(cl.result.operationGroupID) :
                    cl.result.operationGroupID[i] \in STRING
        /\ (cl.pc = "Failed" /\ cl.error \notin AnswerFailures) =>
              \/ cl.reqs.preapply = 1 /\ BadPreapplyBody(cl.body)
              \/ cl.fn = "sendContractInvocationOperation" /\ cl.error = "SyntaxError"

\* C14, in every step: a call leaves a position where it awaits a request only
\* when that request is answered; nothing else (no timeout, no cancellation)
\* moves it on.
C14_NoTimeout ==
    \A c \in Calls :
        (Awaited(call[c].pc) # "none" /\ call'[c] # call[c]) =>
            call'[c].reqs[Awaited(call[c].pc)] = call[c].reqs[Awaited(call[c].pc)] + 1

\* C14: when every request and the signing of a call are answered, a send call that
\* started eventually settles, as Done when the answers were good (requests served,
\* signing succeeded, preapply body with known kinds only), with a result that exists
\* and an operationGroupID that is a string; and a call whose request is never
\* answered stays where it is: it never completes.
C14_Completion ==
    /\ \A c \in Calls : (call[c].pc # "idle") ~> Terminal(call[c])
    /\ []C14_DoneHasResult
    /\ [][C14_NoTimeout]_vars

C14_Witness ==
    \E c \in Calls : /\ call[c].fn = "sendAccountOriginationOperation"
                     /\ call[c].pc = "Done"
                     /\ Len(call[c].operations) = 2
                     /\ call[c].result.operationGroupID = InjectAcceptedText
                     /\ call[c].result.results.contents[2].kind = "origination"

-----------------------------------------------------------------------------
(* The submitted group *)

\* The counters of the stackable operations of a submitted group follow the chain
\* counter the call read: chain + 1, chain + 2, ... in list order.
C21_GroupCounters ==
    \A c \in Calls :
        LET cl == call[c]
            stack == Stack(cl.operations)
        IN (cl.fn \in SendFunctions /\ Submitting(c)) =>
              /\ \A i \in 1..Len(stack) : ParseInt(stack[i].counter) = cl.chainCounter + i
              /\ \A i \in 1..Len(stack) : \A j \in 1..Len(stack) :
                    i < j => ParseInt(stack[i].counter) < ParseInt(stack[j].counter)

\* What was forged and what is sent to preapply are the same operations.
C21_PreapplySameAsForged ==
    \A c \in Calls :
        LET cl == call[c] IN
        (cl.fn \in SendFunctions /\ cl.reqs.preapply = 1) =>
            /\ cl.payload[1].contents = cl.operations
            /\ cl.forged = forgeOperations(cl.blockHead.hash, cl.payload[1].contents)
            /\ parseOperationGroup(cl.forged) = cl.payload[1].contents

\* From the call of sendOperation on, the operation list of the call stays as it is.
C21_Frozen ==
    \A c \in Calls :
        (call[c].fn \in SendFunctions /\ Submitting(c)) =>
            call'[c].operations = call[c].operations

\* C21: in every group a send call submits, the counters of the stackable
\* operations are strictly increasing in list order, consecutive, and start at the
\* chain counter the call read plus one; from the start of forging on the operation
\* records do not change, so the operations sent to preapply have the counters and
\* fields of the operations that were forged.
C21_CountersAssignedOnce ==
    /\ []C21_GroupCounters
    /\ []C21_PreapplySameAsForged
    /\ [][C21_Frozen]_vars

C21_Witness ==
    \E c \in Calls :
        /\ call[c].fn = "sendAccountOriginationOperation" /\ call[c].pc = "Done"
        /\ call[c].chainCounter = 9
        /\ Len(call[c].operations) = 2
        /\ call[c].operations[1].counter = <<1, 0>> /\ call[c].operations[2].counter = <<1, 1>>
        /\ call[c].payload[1].contents = call[c].operations
        /\ call[c].blockHead.hash = "BLa" /\ node.head = 2

\* The requests of a send call that ran to its end: the chain reads its function
\* makes (the counter and the manager key, for sendKeyRevealOperation the counter,
\* for sendIdentityActivationOperation none), the head, one preapply, one injection.
RequestsOfDone(fn) ==
    [NoReqs EXCEPT !.counter = IF fn = "sendIdentityActivationOperation" THEN 0 ELSE 1,
                   !.manager = IF fn \in {"sendIdentityActivationOperation",
                                          "sendKeyRevealOperation"} THEN 0 ELSE 1,
                   !.head = 1, !.preapply = 1, !.inject = 1]

\* C22: a send call forges locally: it never posts to the forge endpoint of the
\* node, its forged bytes are forgeOperations of the head hash it read and of its
\* operations, and its requests are chain reads (counter, manager key, head), at
\* most one preapply and at most one injection; a call that ran to its end made
\* exactly one of each.
C22_LocalForgeOnly ==
    \A c \in Calls :
        LET cl == call[c] IN
        cl.fn \in SendFunctions =>
            /\ cl.reqs.forge = 0
            /\ \A endpoint \in DOMAIN NoReqs : cl.reqs[endpoint] <= RequestsOfDone(cl.fn)[endpoint]
            /\ Has(c, "Forge") => cl.forged = forgeOperations(cl.blockHead.hash, cl.operations)
            /\ cl.pc = "Done" => cl.reqs = RequestsOfDone(cl.fn)

C22_Witness ==
    \E c \in Calls :
        /\ call[c].fn = "sendTransactionOperation" /\ call[c].pc = "Done"
        /\ call[c].reqs = [counter |-> 1, manager |-> 1, head |-> 1, forge |-> 0,
                           preapply |-> 1, inject |-> 1]
        /\ Len(call[c].forged) > 0
        /\ Len(node.injected) = 1

\* The head is read once; the forged bytes begin with the branch that the preapply
\* payload names; every injection request carries the forge of the payload's
\* operations under that branch, followed by the signature whose hinted text the
\* payload holds.
C23_OneBranch ==
    \A c \in Calls :
        LET cl == call[c] IN
        cl.fn \in SendFunctions =>
            /\ cl.reqs.head <= 1
            /\ Has(c, "Forge") =>
                  /\ SubSeq(cl.forged, 1, 2) = writeBranch(cl.blockHead.hash)
                  /\ cl.forged = forgeOperations(cl.blockHead.hash, cl.operations)
            /\ cl.reqs.preapply = 1 =>
                  /\ cl.payload[1].branch = cl.blockHead.hash
                  /\ SubSeq(cl.forged, 1, 2) = writeBranch(cl.payload[1].branch)
            /\ \A i \in 1..Len(ServedFrom(c)) :
                  LET bytes == BufferFromHex(ServedFrom(c)[i].hex)
                      n == Len(bytes) - SigLen
                  IN /\ n >= 0
                     /\ BufferToHex(SubSeq(bytes, 1, n)) =
                           forgeOperations(cl.payload[1].branch, cl.payload[1].contents)
                     /\ cl.payload[1].signature =
                           readSignatureWithHint(SubSeq(bytes, n + 1, Len(bytes)), "edsig")

\* What a call read, forged, signed and sent stays as it is in every later step,
\* the steps of the chain included.
C23_Kept ==
    \A c \in Calls :
        LET cl == call[c] IN
        cl.fn \in SendFunctions =>
            /\ Has(c, "FetchHead") => call'[c].blockHead = cl.blockHead
            /\ Has(c, "Forge") => call'[c].forged = cl.forged
            /\ Has(c, "Sign") => call'[c].signed = cl.signed
            /\ cl.reqs.preapply = 1 => call'[c].payload = cl.payload
            /\ cl.reqs.inject = 1 => call'[c].injectedHex = cl.injectedHex

\* C23: within one sendOperation call the head is read once, the branch hash it
\* gave is used for forging and in the preapply payload, the injected bytes are the
\* forge of the preapplied operation list followed by the signature whose encoded
\* form the payload carried, and none of them changes when the chain head advances
\* during the call.
C23_OneBranchOnePayload == []C23_OneBranch /\ [][C23_Kept]_vars

C23_Witness ==
    \E c \in Calls :
        /\ call[c].fn = "sendDelegationOperation" /\ call[c].pc = "Done"
        /\ Len(ServedFrom(c)) = 1
        /\ call[c].blockHead.hash = "BLa" /\ call[c].payload[1].branch = "BLa"
        /\ getBlockHead(node).hash = "BLb"
        /\ Len(node.injected) = 1 /\ node.injected[1].accepted

-----------------------------------------------------------------------------
(* The answer to the injection *)

\* C24: a send call returns an OperationResult only when the node accepted the
\* injection: a call whose injection request the node rejected (for a duplicate or
\* stale counter) ends in a failure and does not return the rejection response as
\* operationGroupID.
C24_RejectedInjectionFails ==
    \A c \in Calls :
        LET cl == call[c] IN
        /\ cl.pc = "Done" => Accepted(c)
        /\ \A i \in 1..Len(ServedFrom(c)) :
              ~ServedFrom(c)[i].accepted =>
                  /\ cl.pc # "Done"
                  /\ cl.result.operationGroupID # ServedFrom(c)[i].text

-----------------------------------------------------------------------------
(* The operation builders *)

\* The operation the send function built: the last one of the submitted group.
BuiltOperation(cl) == cl.operations[Len(cl.operations)]

C25_TransactionDefaults ==
    \A c \in Calls :
        (call[c].fn = "sendTransactionOperation" /\ Submitting(c)) =>
            /\ BuiltOperation(call[c]).kind = "transaction"
            /\ BuiltOperation(call[c]).gas_limit = ToString(DefaultTransactionGasLimit)
            /\ BuiltOperation(call[c]).storage_limit = ToString(DefaultTransactionStorageLimit)

C25_DelegationDefaults ==
    \A c \in Calls :
        (call[c].fn = "sendDelegationOperation" /\ Submitting(c)) =>
            /\ BuiltOperation(call[c]).kind = "delegation"
            /\ BuiltOperation(call[c]).gas_limit = ToString(DefaultDelegationGasLimit)
            /\ BuiltOperation(call[c]).storage_limit = ToString(DefaultDelegationStorageLimit)

\* C25: the builders apply the named default of the matching field: the delegation
\* of sendDelegationOperation has gas_limit the default delegation gas limit and
\* storage_limit the default delegation storage limit, as the transaction of
\* sendTransactionOperation has the default transaction gas and storage limits.
C25_BuildersApplyDefaults == C25_TransactionDefaults /\ C25_DelegationDefaults

-----------------------------------------------------------------------------
(* The frame of appendRevealOperation *)

\* The one request of appendRevealOperation is the manager-key query.
C26_OneQuery ==
    \A c \in Calls :
        Bundled(c) => call[c].reqs = [NoReqs EXCEPT !.manager = 1]

\* The caller's operation records are after the call what they were before it.
C26_ArgumentsKept ==
    \A c \in Calls :
        Bundled(c) => call[c].passedAfter = call[c].passed

\* C26: appendRevealOperation makes exactly one chain query, the manager-key
\* revealed check, and no other network call, and it does not modify the operation
\* records the caller passed in: the renumbered operations appear only in the
\* returned list.
C26_PureBundler == C26_OneQuery /\ C26_ArgumentsKept

-----------------------------------------------------------------------------
(* The send functions that do not bundle *)

\* C27: sendIdentityActivationOperation and sendKeyRevealOperation never ask for
\* the manager-key reveal status and never get a reveal prepended: the group each
\* submits, forges, preapplies and injects is exactly its one operation; the
\* activation has no counter field and its call makes no counter query.
C27_NoBundling ==
    \A c \in Calls :
        LET cl == call[c] IN
        /\ cl.fn \in {"sendIdentityActivationOperation", "sendKeyRevealOperation"} =>
              /\ cl.reqs.manager = 0
              /\ cl.passed = <<>>
              /\ Submitting(c) => Len(cl.operations) = 1
              /\ cl.reqs.preapply = 1 => Len(cl.payload[1].contents) = 1
              /\ \A i \in 1..Len(ServedFrom(c)) :
                    InjectedOperations(ServedFrom(c)[i].hex) = cl.operations
        /\ (cl.fn = "sendKeyRevealOperation" /\ Submitting(c)) =>
              cl.operations = <<KeyReveal(cl.keyStore, FeeOf(cl.fn, cl.args), cl.chainCounter + 1)>>
        /\ cl.fn = "sendIdentityActivationOperation" =>
              /\ cl.reqs.counter = 0
              /\ Submitting(c) =>
                    /\ cl.operations = <<Activation(cl.keyStore, cl.args.activationCode)>>
                    /\ "counter" \notin DOMAIN cl.operations[1]

C27_Witness ==
    \E c \in Calls :
        /\ call[c].fn = "sendKeyRevealOperation" /\ call[c].pc = "Done"
        /\ ~node0.revealed[call[c].account]
        /\ Len(call[c].operations) = 1 /\ call[c].operations[1].kind = "reveal"
        /\ call[c].reqs.manager = 0 /\ call[c].reqs.counter = 1
        /\ Accepted(c) /\ node.revealed[call[c].account]

=============================================================================
